---- MODULE Spec2Model ----
(***************************************************************************)
(* Model of spitfire's geometry batching core (crates/core/src/lib.rs):    *)
(* VertexStream<V, B> with its vertex / triangle / batch buffers, and the  *)
(* callers that splice streams (crates/draw/src/draw_buffer.rs).           *)
(*                                                                         *)
(* Vertices are opaque to the core; they are modelled as naturals so that  *)
(* order and identity of appended vertices can be observed.  Batch data    *)
(* (B: PartialEq + Clone) is modelled as a value of BatchData.  Vec        *)
(* capacity (ensure_capacity / reserve_exact) never changes the contents   *)
(* of a Vec and is not part of the state.                                  *)
(***************************************************************************)
EXTENDS Integers, Sequences, FiniteSets, TLC

VARIABLES stream, other, token, result, last, calls

\* the GL context and the renderer state of the glow backend
VARIABLES context, state

\* the glyph atlas and the font backend it rasterizes with
VARIABLES text, font

\* the render state the GL holds (blending, scissor test, polygon mode)
VARIABLES gpu

\* a DrawContext, a TileMap and an InputContext
VARIABLES draw, tiles, input_context

glowVars == <<context, state>>

textVars == <<text, font>>

sceneVars == <<draw, tiles, input_context>>

vars == <<stream, other, token, result, last, calls, context, state, text, font,
          gpu, draw, tiles, input_context>>

----------------------------------------------------------------------------
(* Bounds of the exploration *)

\* calls made on the stream since it was constructed or last emptied
MaxCalls == 4
\* vertices and batches the stream may hold
MaxVertices == 6
MaxBatches == 2
\* vertices handed to one triangle_fan / triangle_strip call
MaxShape == 5

BatchData == {"X", "Y"}

\* Indices are u32 / usize in the code.  No explored stream comes near 2^32
\* vertices, so no addition wraps; the subtractions of extract are applied
\* only under its precondition, where they do not underflow.

----------------------------------------------------------------------------
(* Inputs *)

\* the vertices handed to one call on the observed stream: n opaque values,
\* pairwise distinct
OwnVertices(n) == [i \in 1..n |-> i - 1]

\* the vertices of a stream that is spliced in
OtherVertices(n) == [i \in 1..n |-> 10 + i - 1]

----------------------------------------------------------------------------
(* Triangle *)

Triangle(x, y, z) == [a |-> x, b |-> y, c |-> z]

TriangleDefault == Triangle(0, 1, 2)

offset(triangle, off) ==
    [a |-> (triangle.a + off),
     b |-> (triangle.b + off),
     c |-> (triangle.c + off)]

----------------------------------------------------------------------------
(* VertexStream *)

VertexStream(vs, ts, bs) == [vertices |-> vs, triangles |-> ts, batches |-> bs]

new == VertexStream(<<>>, <<>>, <<>>)

fork(self) == new

Batch(data, start, end) == [data |-> data, start |-> start, end |-> end]

VertexStreamToken(self) ==
    [vertices |-> Len(self.vertices),
     triangles |-> Len(self.triangles),
     batches |-> Len(self.batches)]

\* Vec::drain(from..): the removed tail and what stays
DrainFrom(seq, from) == SubSeq(seq, from + 1, Len(seq))

KeepTo(seq, from) == SubSeq(seq, 1, from)

extend_vertices(self, iter) ==
    [self EXCEPT !.vertices = self.vertices \o iter]

extend_triangles(self, relative, iter) ==
    IF relative
    THEN LET off == Len(self.vertices)
             Shift(t) == offset(t, off)
         IN  [self EXCEPT !.triangles =
                 self.triangles \o [i \in 1..Len(iter) |-> Shift(iter[i])]]
    ELSE [self EXCEPT !.triangles = self.triangles \o iter]

extend_batches(self, iter) ==
    [self EXCEPT !.batches = self.batches \o iter]

\* slip: triangles are re-indexed by the token's triangle count
extract_rebase_by_triangles(self, tok) ==
    LET Rebase(t) == [a |-> (t.a - tok.triangles),
                      b |-> (t.b - tok.triangles),
                      c |-> (t.c - tok.triangles)]
        Rerange(b) == Batch(b.data, b.start - tok.triangles, b.end - tok.triangles)
    IN  [self |-> VertexStream(KeepTo(self.vertices, tok.vertices),
                               KeepTo(self.triangles, tok.triangles),
                               KeepTo(self.batches, tok.batches)),
         result |-> VertexStream(
                        DrainFrom(self.vertices, tok.vertices),
                        [i \in 1..(Len(self.triangles) - tok.triangles) |->
                            Rebase(self.triangles[tok.triangles + i])],
                        [i \in 1..(Len(self.batches) - tok.batches) |->
                            Rerange(self.batches[tok.batches + i])])]

\* extract: precondition (unchecked in the code) is that the token is a
\* suffix of self; the actions below only call it with such a token.
\* slip: the ranges of the drained batches are handed over as they are
extract_keeps_ranges(self, tok) ==
    LET Rebase(t) == [a |-> (t.a - tok.vertices),
                      b |-> (t.b - tok.vertices),
                      c |-> (t.c - tok.vertices)]
        r0 == fork(self)
        r1 == extend_vertices(r0, DrainFrom(self.vertices, tok.vertices))
        ts == DrainFrom(self.triangles, tok.triangles)
        r2 == extend_triangles(r1, FALSE, [i \in 1..Len(ts) |-> Rebase(ts[i])])
        r3 == extend_batches(r2, DrainFrom(self.batches, tok.batches))
    IN  [self |-> VertexStream(KeepTo(self.vertices, tok.vertices),
                               KeepTo(self.triangles, tok.triangles),
                               KeepTo(self.batches, tok.batches)),
         result |-> r3]

extract(self, tok) ==
    LET Rebase(t) == [a |-> (t.a - tok.vertices),
                      b |-> (t.b - tok.vertices),
                      c |-> (t.c - tok.vertices)]
        Rerange(b) == Batch(b.data, b.start - tok.triangles, b.end - tok.triangles)
        r0 == fork(self)
        r1 == extend_vertices(r0, DrainFrom(self.vertices, tok.vertices))
        ts == DrainFrom(self.triangles, tok.triangles)
        bs == DrainFrom(self.batches, tok.batches)
        r2 == extend_triangles(r1, FALSE, [i \in 1..Len(ts) |-> Rebase(ts[i])])
        r3 == extend_batches(r2, [i \in 1..Len(bs) |-> Rerange(bs[i])])
    IN  [self |-> VertexStream(KeepTo(self.vertices, tok.vertices),
                               KeepTo(self.triangles, tok.triangles),
                               KeepTo(self.batches, tok.batches)),
         result |-> r3]

triangle(self, vertices) ==
    LET off == Len(self.vertices)
    IN  [self EXCEPT !.vertices = self.vertices \o vertices,
                     !.triangles = Append(self.triangles, offset(TriangleDefault, off))]

RECURSIVE FanLoop(_, _, _, _)
FanLoop(triangles, start, off, count) ==
    IF count = 0 THEN triangles
    ELSE FanLoop(Append(triangles, Triangle(start, off, (off + 1))),
                 start, (off + 1), count - 1)

\* slip: the distance between the operands instead of a saturating difference
SaturatingSub_distance(x, y) == IF x >= y THEN x - y ELSE y - x

SaturatingSub(x, y) == IF x >= y THEN x - y ELSE 0

\* slip: the fan's second corner starts at the first vertex instead of after it
triangle_fan_from_start(self, vertices) ==
    LET start == Len(self.vertices)
        vs == self.vertices \o vertices
        end == Len(vs)
        count == SaturatingSub(end - start, 2)
    IN  [self EXCEPT !.vertices = vs,
                     !.triangles = FanLoop(self.triangles, start, start, count)]

triangle_fan(self, vertices) ==
    LET start == Len(self.vertices)
        vs == self.vertices \o vertices
        end == Len(vs)
        count == SaturatingSub(end - start, 2)
    IN  [self EXCEPT !.vertices = vs,
                     !.triangles = FanLoop(self.triangles, start, (start + 1), count)]

RECURSIVE StripLoop(_, _, _, _)
StripLoop(triangles, off, flip, count) ==
    IF count = 0 THEN triangles
    ELSE StripLoop(Append(triangles,
                       IF flip
                       THEN Triangle((off + 1), off, (off + 2))
                       ELSE Triangle(off, (off + 1), (off + 2))),
                   (off + 1), ~flip, count - 1)

\* slip: the winding starts flipped
triangle_strip_flipped(self, vertices) ==
    LET start == Len(self.vertices)
        vs == self.vertices \o vertices
        end == Len(vs)
        count == SaturatingSub(end - start, 2)
    IN  [self EXCEPT !.vertices = vs,
                     !.triangles = StripLoop(self.triangles, start, TRUE, count)]

triangle_strip(self, vertices) ==
    LET start == Len(self.vertices)
        vs == self.vertices \o vertices
        end == Len(vs)
        count == SaturatingSub(end - start, 2)
    IN  [self EXCEPT !.vertices = vs,
                     !.triangles = StripLoop(self.triangles, start, FALSE, count)]

\* slip: the offset is taken from the triangle count (three vertices per
\* triangle) instead of the vertex count
quad_offset_by_triangles(self, vertices) ==
    LET off == Len(self.triangles) * 3
    IN  [self EXCEPT !.vertices = self.vertices \o vertices,
                     !.triangles = Append(Append(self.triangles,
                                              offset(Triangle(0, 1, 2), off)),
                                          offset(Triangle(2, 3, 0), off))]

quad(self, vertices) ==
    LET off == Len(self.vertices)
    IN  [self EXCEPT !.vertices = self.vertices \o vertices,
                     !.triangles = Append(Append(self.triangles,
                                              offset(Triangle(0, 1, 2), off)),
                                          offset(Triangle(2, 3, 0), off))]

\* slip: the offset is read after the vertices were added
extend_offset_after(self, vertices, triangles) ==
    LET off == Len(self.vertices) + Len(vertices)
        Shift(t) == offset(t, off)
    IN  [self EXCEPT !.vertices = self.vertices \o vertices,
                     !.triangles =
                         self.triangles \o
                             [i \in 1..Len(triangles) |-> Shift(triangles[i])]]

extend(self, vertices, triangles) ==
    LET off == Len(self.vertices)
        Shift(t) == offset(t, off)
    IN  [self EXCEPT !.vertices = self.vertices \o vertices,
                     !.triangles =
                         self.triangles \o
                             [i \in 1..Len(triangles) |-> Shift(triangles[i])]]

\* slip: the batch offset is read after the triangles were added
append_offset_after(self, oth) ==
    LET s1 == extend(self, oth.vertices, oth.triangles)
        off == Len(s1.triangles)
        Move(b) == Batch(b.data, b.start + off, b.end + off)
    IN  [self |-> [s1 EXCEPT !.batches =
                      s1.batches \o
                          [i \in 1..Len(oth.batches) |-> Move(oth.batches[i])]],
         other |-> VertexStream(<<>>, <<>>, <<>>)]

append(self, oth) ==
    LET off == Len(self.triangles)
        s1 == extend(self, oth.vertices, oth.triangles)
        Move(b) == Batch(b.data, b.start + off, b.end + off)
    IN  [self |-> [s1 EXCEPT !.batches =
                      s1.batches \o
                          [i \in 1..Len(oth.batches) |-> Move(oth.batches[i])]],
         other |-> VertexStream(<<>>, <<>>, <<>>)]

\* slip: the batches are copied without moving their ranges
append_cloned_unmoved(self, oth) ==
    LET s1 == extend(self, oth.vertices, oth.triangles)
    IN  [self |-> [s1 EXCEPT !.batches = s1.batches \o oth.batches],
         other |-> oth]

append_cloned(self, oth) ==
    LET off == Len(self.triangles)
        s1 == extend(self, oth.vertices, oth.triangles)
        Copy(b) == Batch(b.data, b.start + off, b.end + off)
    IN  [self |-> [s1 EXCEPT !.batches =
                      s1.batches \o
                          [i \in 1..Len(oth.batches) |-> Copy(oth.batches[i])]],
         other |-> oth]

\* slip: the batches are not cleared
clear_keeps_batches(self) == VertexStream(<<>>, <<>>, self.batches)

clear(self) == VertexStream(<<>>, <<>>, <<>>)

batch_end(self) ==
    IF self.batches # <<>>
    THEN [self EXCEPT !.batches[Len(self.batches)].end = Len(self.triangles)]
    ELSE self

batch(self, data) ==
    LET s1 == batch_end(self)
        start == Len(s1.triangles)
    IN  [s1 EXCEPT !.batches = Append(s1.batches, Batch(data, start, start))]

\* slip: an equal state is merged without moving the range's end
batch_optimized_no_end(self, data) ==
    IF self.batches # <<>> /\ self.batches[Len(self.batches)].data = data
    THEN self
    ELSE batch(self, data)

batch_optimized(self, data) ==
    IF self.batches # <<>> /\ self.batches[Len(self.batches)].data = data
    THEN [self EXCEPT !.batches[Len(self.batches)].end = Len(self.triangles)]
    ELSE batch(self, data)

\* VertexStreamRenderer for (): leaves the stream as it is
UnitRender(self) == self

render(self) == UnitRender(batch_end(self))

\* drain: the three Drain iterators take everything, the Vecs are left empty
drain(self) ==
    LET s1 == batch_end(self)
    IN  [self |-> VertexStream(<<>>, <<>>, <<>>), result |-> s1]


\* the closures handed to transformed as f: each only appends
CallBuild(f, self) ==
    CASE f = "nothing" -> self
      [] f = "quad" -> quad(self, OwnVertices(4))
      [] f = "batch_triangle" ->
            triangle(batch_optimized(self, "Y"), OwnVertices(3))

\* slip: t visits every vertex of the stream, not only those f appended
transformed_from_first(self, f, t) ==
    LET s1 == CallBuild(f, self)
        end == Len(s1.vertices)
    IN  [s1 EXCEPT !.vertices =
            [i \in 1..Len(s1.vertices) |->
                IF i <= end THEN t[s1.vertices[i]] ELSE s1.vertices[i]]]

\* transformed: f(self) runs first, then t visits self.vertices[start..end]
transformed(self, f, t) ==
    LET start == Len(self.vertices)
        s1 == CallBuild(f, self)
        end == Len(s1.vertices)
    IN  [s1 EXCEPT !.vertices =
            [i \in 1..Len(s1.vertices) |->
                IF i > start /\ i <= end THEN t[s1.vertices[i]] ELSE s1.vertices[i]]]

\* DrawBuffer::submit / submit_cloned hand the buffer's stream to the target's
submit(target, buffer) == append(target, buffer)

submit_cloned(target, buffer) == append_cloned(target, buffer)

----------------------------------------------------------------------------
(* Batch submission of the glow backend (crates/glow/src/renderer.rs,      *)
(* crates/glow/src/graphics.rs).  `context` is the sequence of GL calls    *)
(* the last operation issued on the GL context, each a record of the       *)
(* call's name and arguments.  GL names (BLEND, LINE, ...) are strings.    *)

\* Option<T>: None is the empty sequence, Some(x) the sequence holding x
None == <<>>

Some(x) == <<x>>

GL(call, args) == [call |-> call, args |-> args]

\* size_of::<u32>()
SizeOfU32 == 4

into_gl(blending) ==
    CASE blending = "None" -> None
      [] blending = "Alpha" -> Some(<<"SRC_ALPHA", "ONE_MINUS_SRC_ALPHA">>)
      [] blending = "Multiply" -> Some(<<"DST_COLOR", "ZERO">>)
      [] blending = "Additive" -> Some(<<"ONE", "ONE">>)

\* uniforms: a set of [name, value] with pairwise distinct names (HashMap);
\* textures: a sequence of [texture, target, min_filter, mag_filter]
GlowBatch(shader_program, uniforms, textures, blending, scissor, wireframe) ==
    [shader_program |-> shader_program,
     uniforms |-> uniforms,
     textures |-> textures,
     blending |-> blending,
     scissor |-> scissor,
     wireframe |-> wireframe]

\* #[derive(Default)]
GlowBatchDefault == GlowBatch(None, {}, <<>>, None, None, FALSE)

\* HashMap::get
get(uniforms, name) ==
    LET hit == {u \in uniforms : u.name = name}
    IN  IF hit = {} THEN None ELSE Some((CHOOSE u \in hit : TRUE).value)

\* the uniforms each linked program exposes: get_uniform_location is None
\* for any other name
ProgramUniforms == [program \in {"X", "Y"} |-> {"u", "v"}]

get_uniform_location(program, name) ==
    IF name \in ProgramUniforms[program] THEN Some(name) ELSE None

\* the uniforms of self that are sent to the program: `changed`, or a value
\* found under the same name in prev that differs (unwrap_or_default is
\* false when prev has no such name), and a location for the name
UniformUploads(self, prev) ==
    LET program == self.shader_program[1]
        changed == IF prev.shader_program = None THEN TRUE
                   ELSE program # prev.shader_program[1]
    IN  { u \in self.uniforms :
            /\ \/ changed
               \/ LET v == get(prev.uniforms, u.name)
                  IN  IF v = None THEN FALSE ELSE u.value # v[1]
            /\ get_uniform_location(program, u.name) # None }

\* use_program is called for every batch that has a program; the uniform_*
\* calls of one batch come in the HashMap's iteration order and are recorded
\* as one entry that holds the set of uniforms sent
ProgramCalls(self, prev) ==
    IF self.shader_program = None THEN <<>>
    ELSE <<GL("use_program", <<self.shader_program>>)>> \o
         (IF UniformUploads(self, prev) = {} THEN <<>>
          ELSE <<GL("uniform", <<UniformUploads(self, prev)>>)>>)

RECURSIVE TextureCalls(_, _, _)
TextureCalls(self, prev, index) ==
    IF index >= Len(self.textures) THEN <<>>
    ELSE LET data == self.textures[index + 1]
             differs == IF index < Len(prev.textures)
                        THEN prev.textures[index + 1] # data
                        ELSE TRUE
         IN  <<GL("active_texture", <<index>>)>> \o
             (IF differs
              THEN <<GL("bind_texture", <<data.target, Some(data.texture)>>),
                     GL("tex_parameter_i32", <<"TEXTURE_MIN_FILTER", data.min_filter>>),
                     GL("tex_parameter_i32", <<"TEXTURE_MAG_FILTER", data.mag_filter>>)>>
              ELSE <<>>) \o
             TextureCalls(self, prev, index + 1)

\* slip: the blend state is set for every batch
BlendingCalls_always(self, prev) ==
    IF self.blending # None
    THEN <<GL("enable", <<"BLEND">>), GL("blend_func", self.blending[1])>>
    ELSE <<GL("disable", <<"BLEND">>)>>

BlendingCalls(self, prev) ==
    IF self.blending # prev.blending
    THEN IF self.blending # None
         THEN <<GL("enable", <<"BLEND">>), GL("blend_func", self.blending[1])>>
         ELSE <<GL("disable", <<"BLEND">>)>>
    ELSE <<>>

ScissorCalls(self, prev) ==
    IF self.scissor # prev.scissor
    THEN IF self.scissor # None
         THEN <<GL("enable", <<"SCISSOR_TEST">>), GL("scissor", self.scissor[1])>>
         ELSE <<GL("disable", <<"SCISSOR_TEST">>)>>
    ELSE <<>>

WireframeCalls(self, prev) ==
    IF self.wireframe # prev.wireframe
    THEN IF self.wireframe
         THEN <<GL("polygon_mode", <<"FRONT_AND_BACK", "LINE">>)>>
         ELSE <<GL("polygon_mode", <<"FRONT_AND_BACK", "FILL">>)>>
    ELSE <<>>

\* slip: the range's end is counted in
RangeLen_inclusive(range) ==
    IF range.end >= range.start THEN range.end - range.start + 1 ELSE 0

\* Range<usize>::len
RangeLen(range) ==
    IF range.end >= range.start THEN range.end - range.start ELSE 0

\* GlowBatch::draw: the calls one batch issues, given the batch before it
GlowBatch_draw(self, range, prev) ==
    ProgramCalls(self, prev) \o
    TextureCalls(self, prev, 0) \o
    BlendingCalls(self, prev) \o
    ScissorCalls(self, prev) \o
    WireframeCalls(self, prev) \o
    <<GL("draw_elements",
         <<"TRIANGLES", RangeLen(range) * 3, "UNSIGNED_INT",
           range.start * SizeOfU32 * 3>>)>>

\* V::ATTRIBS of the draw crate's Vertex
ATTRIBS == <<"a_position", "a_uv", "a_color">>

RECURSIVE AttribCalls(_)
AttribCalls(location) ==
    IF location >= Len(ATTRIBS) THEN <<>>
    ELSE <<GL("vertex_attrib_pointer_f32", <<location>>),
           GL("enable_vertex_attrib_array", <<location>>)>> \o
         AttribCalls(location + 1)

GlowMesh_upload(vertices, triangles) ==
    <<GL("bind_vertex_array", <<Some("vertex_array")>>),
      GL("bind_buffer", <<"ARRAY_BUFFER", Some("vertex_buffer")>>),
      GL("buffer_data_u8_slice", <<"ARRAY_BUFFER", vertices, "STREAM_DRAW">>),
      GL("bind_buffer", <<"ELEMENT_ARRAY_BUFFER", Some("index_buffer")>>),
      GL("buffer_data_u8_slice", <<"ELEMENT_ARRAY_BUFFER", triangles, "STREAM_DRAW">>)>> \o
    AttribCalls(0)

\* GlowMesh::new: the vertex array and the two buffers are created; `fail`
\* says that the GL refuses one of them, after which `?` returns the error.
\* The create_* calls touch no GL state and are not recorded.
GlowMesh_new(fail) ==
    IF fail THEN [result |-> "Err", calls |-> <<>>]
    ELSE [result |-> "Ok", calls |-> <<>>]

\* #[derive(Default)]
GlowStateDefault == [mesh |-> None]

\* GlowState::mesh: the mesh is created on first use and kept
GlowState_mesh(self, fail) ==
    IF self.mesh # None
    THEN [state |-> self, result |-> "Ok", calls |-> <<>>]
    ELSE LET created == GlowMesh_new(fail)
         IN  IF created.result = "Ok"
             THEN [state |-> [self EXCEPT !.mesh = Some("mesh")],
                   result |-> "Ok", calls |-> created.calls]
             ELSE [state |-> self, result |-> "Err", calls |-> created.calls]

RECURSIVE RenderLoop(_, _, _)
RenderLoop(batches, index, prev) ==
    IF index > Len(batches) THEN <<>>
    ELSE GlowBatch_draw(batches[index].data, batches[index], prev) \o
         RenderLoop(batches, index + 1, batches[index].data)

\* GlowRenderer::render
GlowRenderer_render(self, strm, fail) ==
    LET mesh == GlowState_mesh(self, fail)
    IN  IF mesh.result = "Err"
        THEN [state |-> mesh.state, result |-> "Err", calls |-> mesh.calls]
        ELSE [state |-> mesh.state,
              result |-> "Ok",
              calls |-> mesh.calls \o
                        GlowMesh_upload(strm.vertices, strm.triangles) \o
                        RenderLoop(strm.batches, 1, GlowBatchDefault)]

\* Graphics::prepare_frame
Graphics_prepare_frame ==
    <<GL("bind_texture", <<"TEXTURE_2D_ARRAY", None>>),
      GL("bind_vertex_array", <<None>>),
      GL("use_program", <<None>>),
      GL("disable", <<"BLEND">>),
      GL("disable", <<"SCISSOR_TEST">>),
      GL("clear_color", <<>>),
      GL("clear", <<"COLOR_BUFFER_BIT">>)>>

\* Graphics::draw: the context of a live Graphics is valid (it owns the
\* StrongContext); `?` returns before clear when render fails
Graphics_draw(strm, self, fail) ==
    LET s1 == batch_end(strm)
        rendered == GlowRenderer_render(self, s1, fail)
    IN  IF rendered.result = "Err"
        THEN [stream |-> s1, state |-> rendered.state,
              result |-> "Err", calls |-> rendered.calls]
        ELSE [stream |-> clear(s1), state |-> rendered.state,
              result |-> "Ok", calls |-> rendered.calls]

----------------------------------------------------------------------------
(* The render state of the GL that the calls above set: `blend` is None    *)
(* while BLEND is disabled and the blend function otherwise, `scissor` is  *)
(* None while SCISSOR_TEST is disabled and the scissor box otherwise,      *)
(* `polygon_mode` is the rasterization mode of both faces.                 *)

\* the state of a fresh GL context
GpuDefault == [blend |-> None, scissor |-> None, polygon_mode |-> "FILL"]

\* the effect of one GL call on the render state
GpuCall(self, c) ==
    CASE c.call = "disable" /\ c.args = <<"BLEND">> -> [self EXCEPT !.blend = None]
      [] c.call = "blend_func" -> [self EXCEPT !.blend = Some(c.args)]
      [] c.call = "disable" /\ c.args = <<"SCISSOR_TEST">> ->
            [self EXCEPT !.scissor = None]
      [] c.call = "scissor" -> [self EXCEPT !.scissor = Some(c.args)]
      [] c.call = "polygon_mode" -> [self EXCEPT !.polygon_mode = c.args[2]]
      [] OTHER -> self

\* the render state after the calls log[index..] were issued in order
RECURSIVE GpuCalls(_, _, _)
GpuCalls(self, log, index) ==
    IF index > Len(log) THEN self
    ELSE GpuCalls(GpuCall(self, log[index]), log, index + 1)

----------------------------------------------------------------------------
(* Glyph atlas (crates/fontdue/src/lib.rs).  A glyph key stands for a      *)
(* GlyphRasterConfig.  The font backend (fontdue) is the table Metrics and *)
(* the bitmap Coverage; `font` counts, for every key, the calls of         *)
(* Font::rasterize_config since the atlas was last cleared.  The bin       *)
(* packer of a page (etagere's AtlasAllocator) is a shelf packer: it hands *)
(* out rectangles that lie inside the page and do not overlap, or None.    *)

\* size of one atlas page, as given to TextRenderer::new
PageWidth == 4
PageHeight == 3

Keys == {"a", "b", "c", "big", "space"}

\* Font::rasterize_config(key).0: the size of the glyph's bitmap.  "big" is
\* as wide as a page, so that with its margin it fits no page; "space" has
\* no bitmap
Metrics ==
    [key \in Keys |->
        CASE key = "a" -> [width |-> 1, height |-> 1]
          [] key = "b" -> [width |-> 2, height |-> 1]
          [] key = "c" -> [width |-> 1, height |-> 2]
          [] key = "big" -> [width |-> PageWidth, height |-> 1]
          [] key = "space" -> [width |-> 0, height |-> 0]]

\* the coverage byte every pixel of a key's bitmap holds
Ink == [key \in Keys |->
           CASE key = "a" -> 1 [] key = "b" -> 2 [] key = "c" -> 3
             [] key = "big" -> 4 [] key = "space" -> 0]

\* Font::rasterize_config(key).1
Coverage(key) ==
    [i \in 1..(Metrics[key].width * Metrics[key].height) |-> Ink[key]]

\* no call of rasterize_config yet
FontIdle == [key \in Keys |-> 0]

\* one entry of Layout::glyphs(); char_data.rasterize() is false for
\* whitespace
GlyphPosition(key, x, y) ==
    [key |-> key, x |-> x, y |-> y,
     width |-> Metrics[key].width, height |-> Metrics[key].height,
     rasterize |-> key # "space"]

\* the glyphs of a laid out line of text
Layout(keys) == [i \in 1..Len(keys) |-> GlyphPosition(keys[i], 10 * (i - 1), 0)]

Rect(x, y, w, h) == [x |-> x, y |-> y, w |-> w, h |-> h]

TextRendererGlyph(key, page, rectangle) ==
    [key |-> key, page |-> page, rectangle |-> rectangle]

\* AtlasAllocator::new: shelves are [y, height, x] with x the free column,
\* rectangles are the allocations made so far
AtlasAllocator_new(w, h) ==
    [width |-> w, height |-> h, shelves |-> <<>>, rectangles |-> <<>>]

ShelvesHeight(atlas) ==
    IF atlas.shelves = <<>> THEN 0
    ELSE atlas.shelves[Len(atlas.shelves)].y + atlas.shelves[Len(atlas.shelves)].height

\* AtlasAllocator::allocate: the first shelf that is tall enough and has the
\* room, else a new shelf, else None
allocate(atlas, w, h) ==
    LET fits == { i \in 1..Len(atlas.shelves) :
                    /\ atlas.shelves[i].height >= h
                    /\ atlas.shelves[i].x + w <= atlas.width }
    IN  IF w > atlas.width \/ h > atlas.height
        THEN [atlas |-> atlas, origin |-> None]
        ELSE IF fits # {}
        THEN LET i == CHOOSE i \in fits : \A j \in fits : i <= j
                 shelf == atlas.shelves[i]
             IN  [atlas |-> [atlas EXCEPT
                                !.shelves[i].x = shelf.x + w,
                                !.rectangles = Append(@, Rect(shelf.x, shelf.y, w, h))],
                  origin |-> Some([x |-> shelf.x, y |-> shelf.y])]
        ELSE IF ShelvesHeight(atlas) + h <= atlas.height
        THEN LET y == ShelvesHeight(atlas)
             IN  [atlas |-> [atlas EXCEPT
                                !.shelves = Append(@, [y |-> y, height |-> h, x |-> w]),
                                !.rectangles = Append(@, Rect(0, y, w, h))],
                  origin |-> Some([x |-> 0, y |-> y])]
        ELSE [atlas |-> atlas, origin |-> None]

\* used_glyphs: a set of TextRendererGlyph with pairwise distinct keys
TextRenderer_new(width, height) ==
    [used_glyphs |-> {},
     atlas_size |-> <<width, height, 0>>,
     image |-> <<>>,
     atlases |-> <<>>,
     ready_to_render |-> <<>>]

\* slip: the pixel buffer is kept
TextRenderer_clear_keeps_image(self) ==
    [self EXCEPT !.used_glyphs = {},
                 !.atlas_size[3] = 0,
                 !.atlases = <<>>,
                 !.ready_to_render = <<>>]

TextRenderer_clear(self) ==
    [self EXCEPT !.used_glyphs = {},
                 !.atlas_size[3] = 0,
                 !.image = <<>>,
                 !.atlases = <<>>,
                 !.ready_to_render = <<>>]

\* Vec::resize(len, 0)
Resize(image, len) ==
    [i \in 1..len |-> IF i <= Len(image) THEN image[i] ELSE 0]

\* slip: every key is taken for a new one
Vacant_always(self, key) == TRUE

\* used_glyphs.entry(key) is Entry::Vacant
Vacant(self, key) == \A glyph \in self.used_glyphs : glyph.key # key

\* slip: the existing pages are not tried
FindPage_skipped(self, page, w, h) == [self |-> self, allocation |-> None]

\* find_map over the existing pages, in page order (page is counted from 0)
RECURSIVE FindPage(_, _, _, _)
FindPage(self, page, w, h) ==
    IF page >= Len(self.atlases) THEN [self |-> self, allocation |-> None]
    ELSE LET tried == allocate(self.atlases[page + 1], w, h)
         IN  IF tried.origin # None
             THEN [self |-> [self EXCEPT !.atlases[page + 1] = tried.atlas],
                   allocation |-> Some([page |-> page, origin |-> tried.origin[1]])]
             ELSE FindPage(self, page + 1, w, h)

\* slip: the page is pushed before the allocation is known to succeed
NewPage_pushed_first(self, w, h) ==
    LET atlas == AtlasAllocator_new(self.atlas_size[1], self.atlas_size[2])
        page == Len(self.atlases)
        tried == allocate(atlas, w, h)
        size == [self.atlas_size EXCEPT ![3] = @ + 1]
        grown == [self EXCEPT !.atlases = Append(@, tried.atlas),
                              !.atlas_size = size,
                              !.image = Resize(@, size[1] * size[2] * size[3])]
    IN  IF tried.origin = None
        THEN [self |-> grown, allocation |-> None]
        ELSE [self |-> grown,
              allocation |-> Some([page |-> page, origin |-> tried.origin[1]])]

\* or_else: a new page-sized packer; if it refuses the glyph, `?` leaves the
\* closure and the packer is dropped
NewPage(self, w, h) ==
    LET atlas == AtlasAllocator_new(self.atlas_size[1], self.atlas_size[2])
        page == Len(self.atlases)
        tried == allocate(atlas, w, h)
        size == [self.atlas_size EXCEPT ![3] = @ + 1]
    IN  IF tried.origin = None
        THEN [self |-> self, allocation |-> None]
        ELSE [self |-> [self EXCEPT !.atlases = Append(@, tried.atlas),
                                    !.atlas_size = size,
                                    !.image = Resize(@, size[1] * size[2] * size[3])],
              allocation |-> Some([page |-> page, origin |-> tried.origin[1]])]

\* the coverage bytes are copied to index = page * w * h + y * w + x
Blit(self, key, page, origin) ==
    LET w == self.atlas_size[1]
        h == self.atlas_size[2]
        width == Metrics[key].width
        coverage == Coverage(key)
        At(index) == page * w * h
                     + (origin.y + (index \div width)) * w
                     + (origin.x + (index % width))
    IN  [i \in 1..Len(self.image) |->
            IF \E index \in 0..(Len(coverage) - 1) : At(index) = i - 1
            THEN coverage[(CHOOSE index \in 0..(Len(coverage) - 1) : At(index) = i - 1) + 1]
            ELSE self.image[i]]

\* one turn of the loop of include; `st` is the renderer and the font's
\* call counts
IncludeGlyph(st, glyph) ==
    LET queued == IF glyph.rasterize
                  THEN [st.text EXCEPT !.ready_to_render = Append(@, glyph)]
                  ELSE st.text
    IN  IF ~Vacant(queued, glyph.key)
        THEN [text |-> queued, font |-> st.font]
        ELSE LET counted == [st.font EXCEPT ![glyph.key] = @ + 1]
                 w == Metrics[glyph.key].width + 1
                 h == Metrics[glyph.key].height + 1
                 found == FindPage(queued, 0, w, h)
                 placed == IF found.allocation # None THEN found
                           ELSE NewPage(queued, w, h)
             IN  IF ~glyph.rasterize \/ placed.allocation = None
                 THEN [text |-> IF glyph.rasterize THEN placed.self ELSE queued,
                       font |-> counted]
                 ELSE LET page == placed.allocation[1].page
                          origin == placed.allocation[1].origin
                      IN  [text |->
                              [placed.self EXCEPT
                                  !.image = Blit(placed.self, glyph.key, page, origin),
                                  !.used_glyphs = @ \cup
                                      {TextRendererGlyph(glyph.key, page,
                                          Rect(origin.x, origin.y,
                                               Metrics[glyph.key].width,
                                               Metrics[glyph.key].height))}],
                           font |-> counted]

RECURSIVE TextRenderer_include(_, _, _)
TextRenderer_include(st, layout, index) ==
    IF index > Len(layout) THEN st
    ELSE TextRenderer_include(IncludeGlyph(st, layout[index]), layout, index + 1)

\* TextRenderer::glyph
glyph(self, key) ==
    LET hit == {g \in self.used_glyphs : g.key = key}
    IN  IF hit = {} THEN None ELSE Some(CHOOSE g \in hit : TRUE)

\* consume_renderables: the queue is drained; glyphs whose key is not cached
\* are filtered out
TextRenderer_consume_renderables(self) ==
    LET cached == SelectSeq(self.ready_to_render,
                            LAMBDA g : glyph(self, g.key) # None)
    IN  [self |-> [self EXCEPT !.ready_to_render = <<>>],
         result |-> [i \in 1..Len(cached) |->
                        <<cached[i], glyph(self, cached[i].key)[1]>>]]

\* TextVertex::apply; a texture coordinate is kept as <<texels, size>> for
\* the quotient texels / size
TextVertex(position, tex_coord) == [position |-> position, tex_coord |-> tex_coord]

\* the four corners built for one queued glyph
GlyphQuad(self, g, data) ==
    LET w == self.atlas_size[1]
        h == self.atlas_size[2]
        min_x == data.rectangle.x
        min_y == data.rectangle.y
        max_x == data.rectangle.x + data.rectangle.w
        max_y == data.rectangle.y + data.rectangle.h
    IN  <<TextVertex(<<g.x, g.y>>, <<<<min_x, w>>, <<min_y, h>>, data.page>>),
          TextVertex(<<g.x + g.width, g.y>>, <<<<max_x, w>>, <<min_y, h>>, data.page>>),
          TextVertex(<<g.x + g.width, g.y + g.height>>, <<<<max_x, w>>, <<max_y, h>>, data.page>>),
          TextVertex(<<g.x, g.y + g.height>>, <<<<min_x, w>>, <<max_y, h>>, data.page>>)>>

RECURSIVE RenderGlyphs(_, _, _, _)
RenderGlyphs(self, queue, index, strm) ==
    IF index > Len(queue) THEN strm
    ELSE LET data == glyph(self, queue[index].key)
         IN  RenderGlyphs(self, queue, index + 1,
                 IF data # None
                 THEN quad(strm, GlyphQuad(self, queue[index], data[1]))
                 ELSE strm)

\* slip: the queue is read but not drained
TextRenderer_render_to_stream_keeps_queue(self, strm) ==
    [self |-> self,
     stream |-> RenderGlyphs(self, self.ready_to_render, 1, strm)]

\* render_to_stream: the queue is drained into the stream
TextRenderer_render_to_stream(self, strm) ==
    [self |-> [self EXCEPT !.ready_to_render = <<>>],
     stream |-> RenderGlyphs(self, self.ready_to_render, 1, strm)]

----------------------------------------------------------------------------
(* Drawing context (crates/draw/src/context.rs).  Shaders are named by     *)
(* strings, transforms and blendings are opaque values.  The context's     *)
(* text_renderer is the glyph atlas above.                                 *)

\* #[derive(Default)]
DrawContextDefault ==
    [shaders |-> {},
     pass_shader |-> None,
     empty_texture |-> None,
     fonts_texture |-> None,
     shaders_stack |-> <<>>,
     transform_stack |-> <<>>,
     blending_stack |-> <<>>]

\* ResourceRef<Shader>: a name to look up in DrawContext::shaders, or the
\* shader itself.  The shader registered under a name is written as the name.
Name(name) == [kind |-> "Name", value |-> name]

Object(object) == [kind |-> "Object", value |-> object]

\* DrawContext::shader: reference is an Option<&ShaderRef>
DrawContext_shader(self, reference) ==
    LET found == IF reference = None THEN None
                 ELSE IF reference[1].kind = "Name"
                      THEN IF reference[1].value \in self.shaders
                           THEN Some(reference[1].value) ELSE None
                      ELSE Some(reference[1].value)
    IN  IF found # None THEN found
        ELSE IF self.shaders_stack = <<>> THEN None
             ELSE Some(self.shaders_stack[Len(self.shaders_stack)])

push_shader(self, shader) ==
    IF shader.kind = "Name"
    THEN IF shader.value \in self.shaders
         THEN [self EXCEPT !.shaders_stack = Append(@, shader.value)]
         ELSE self
    ELSE [self EXCEPT !.shaders_stack = Append(@, shader.value)]

\* Vec::pop: nothing happens on an empty stack
pop_shader(self) ==
    IF self.shaders_stack = <<>> THEN self
    ELSE [self EXCEPT !.shaders_stack = SubSeq(@, 1, Len(@) - 1)]

\* with_shader: push_shader, f(), pop_shader; f is an FnMut() that cannot
\* reach the context, which is mutably borrowed for the whole call
with_shader(self, shader) == pop_shader(push_shader(self, shader))

\* a Mat4 is a translation along x, written as its distance; the product of
\* two is the sum, Mat4::default() is the identity 0
push_transform(self, transform) ==
    [self EXCEPT !.transform_stack = Append(@, transform)]

pop_transform(self) ==
    IF self.transform_stack = <<>> THEN self
    ELSE [self EXCEPT !.transform_stack = SubSeq(@, 1, Len(@) - 1)]

top_transform(self) ==
    IF self.transform_stack = <<>> THEN 0
    ELSE self.transform_stack[Len(self.transform_stack)]

with_transform(self, transform) == pop_transform(push_transform(self, transform))

push_blending(self, blending) ==
    [self EXCEPT !.blending_stack = Append(@, blending)]

pop_blending(self) ==
    IF self.blending_stack = <<>> THEN self
    ELSE [self EXCEPT !.blending_stack = SubSeq(@, 1, Len(@) - 1)]

with_blending(self, blending) == pop_blending(push_blending(self, blending))

\* slip: the text renderer is kept from frame to frame
begin_frame_keeps_atlas(self, renderer, ok) ==
    [context |-> [self EXCEPT
                    !.pass_shader = IF @ = None /\ ok THEN Some("pass") ELSE @,
                    !.empty_texture = IF @ = None /\ ok THEN Some("empty") ELSE @,
                    !.fonts_texture = IF @ = None /\ ok THEN Some("fonts") ELSE @,
                    !.shaders_stack = <<>>,
                    !.transform_stack = <<>>,
                    !.blending_stack = <<>>],
     text_renderer |-> renderer]

\* begin_frame: the pass shader and the two textures are created once, as
\* far as the Graphics can make them (`ok`; `.ok()` leaves None otherwise);
\* the text renderer and the three stacks are cleared
begin_frame(self, renderer, ok) ==
    [context |-> [self EXCEPT
                    !.pass_shader = IF @ = None /\ ok THEN Some("pass") ELSE @,
                    !.empty_texture = IF @ = None /\ ok THEN Some("empty") ELSE @,
                    !.fonts_texture = IF @ = None /\ ok THEN Some("fonts") ELSE @,
                    !.shaders_stack = <<>>,
                    !.transform_stack = <<>>,
                    !.blending_stack = <<>>],
     text_renderer |-> TextRenderer_clear(renderer)]

\* end_frame: what is uploaded to the fonts texture, if there is one
end_frame(self, renderer) ==
    IF self.fonts_texture # None
    THEN Some([size |-> renderer.atlas_size, image |-> renderer.image])
    ELSE None

\* the batch Text::draw opens (the uniforms hold the camera's matrix and the
\* image unit, which are the same for every text of a frame)
TextBatch(shader, texture) ==
    [shader |-> shader,
     textures |-> IF texture # None THEN <<texture[1]>> ELSE <<>>,
     blending |-> "Alpha"]

\* Text::draw of self = [shader, transform, layout]; layout is None when the
\* text's font is not registered (make_text_layout).  The quads are built by
\* render_to_stream inside VertexStream::transformed, which moves the
\* positions of the vertices it appended.
Text_draw(self, ctx, st, strm) ==
    IF self.layout = None
    THEN [text |-> st.text, font |-> st.font, stream |-> strm]
    ELSE LET s1 == batch_optimized(strm,
                      TextBatch(DrawContext_shader(ctx, self.shader),
                                ctx.fonts_texture))
             transform == top_transform(ctx) + self.transform
             start == Len(s1.vertices)
             Moved(vertices) ==
                 [i \in 1..Len(vertices) |->
                     IF i > start
                     THEN [vertices[i] EXCEPT !.position[1] = @ + transform]
                     ELSE vertices[i]]
             Rendered(included) ==
                 CHOOSE drawn \in
                     { [text |-> rendered.self,
                        font |-> included.font,
                        stream |-> [rendered.stream EXCEPT !.vertices = Moved(@)]] :
                       rendered \in {TextRenderer_render_to_stream(included.text, s1)} } :
                     TRUE
         IN  CHOOSE drawn \in
                 { Rendered(included) :
                   included \in {TextRenderer_include(st, self.layout[1], 1)} } : TRUE

----------------------------------------------------------------------------
(* Tile map (crates/draw/src/tiles.rs).  A location is <<x, y>>, the       *)
(* buffer holds one tile id per cell; Vec index i is buffer[i + 1].        *)

\* TileMap::new
TileMap_new(size, fill_id) ==
    [size |-> size, buffer |-> [i \in 1..(size[1] * size[2]) |-> fill_id]]

\* TileMap::index
TileMap_index(self, location) == location[2] * self.size[1] + location[2]

\* TileMap::get: buffer.get(index).copied()
TileMap_get(self, location) ==
    LET at == TileMap_index(self, location)
    IN  IF at < Len(self.buffer) THEN Some(self.buffer[at + 1]) ELSE None

\* TileMap::set: nothing is written when the index is outside the buffer
TileMap_set(self, location, id) ==
    LET at == TileMap_index(self, location)
    IN  IF at < Len(self.buffer)
        THEN [self EXCEPT !.buffer[at + 1] = id]
        ELSE self

----------------------------------------------------------------------------
(* Input mappings (crates/input/src/lib.rs).                               *)

(* A mapping binds keys to actions and axes; every mapping holds its own  *)
(* InputActionRef / InputAxisRef cells, so `actions` and `axes` are        *)
(* functions from the bound keys to the cell's value.  An entry of the     *)
(* stack is the pair of an ID and a mapping; IDs are numbered in the order *)
(* in which ID::default() hands them out.                                  *)

InputContextDefault == [mappings_stack |-> <<>>]

\* InputMapping::default() with the builder calls layer, consume, action
\* and axis applied: every bound action starts Idle, every axis at 0
InputMapping(layer, consume, actions, axes) ==
    [layer |-> layer,
     consume |-> consume,
     actions |-> [key \in actions |-> "Idle"],
     axes |-> [key \in axes |-> 0]]

\* InputAction::change
change(self, hold) ==
    CASE (self = "Idle" \/ self = "Released") /\ hold -> "Pressed"
      [] self = "Pressed" /\ hold -> "Hold"
      [] (self = "Pressed" \/ self = "Hold") /\ ~hold -> "Released"
      [] self = "Released" /\ ~hold -> "Idle"
      [] OTHER -> self

\* slip: a mapping of the same layer compares as Greater
Compare_then_greater(mapping, layer) ==
    IF mapping.layer < layer THEN "Less" ELSE "Greater"

\* the comparator of push_mapping: mapping.layer.cmp(&layer).then(Less)
Compare(mapping, layer) ==
    IF mapping.layer > layer THEN "Greater" ELSE "Less"

\* slice::binary_search_by over mappings_stack[left..right] (0-based) with
\* the comparator above, which is never Equal: the Err(index) it ends with
RECURSIVE binary_search_by(_, _, _, _)
binary_search_by(self, layer, left, right) ==
    IF left >= right THEN left
    ELSE LET mid == left + ((right - left) \div 2)
         IN  IF Compare(self[mid + 1].mapping, layer) = "Less"
             THEN binary_search_by(self, layer, mid + 1, right)
             ELSE binary_search_by(self, layer, left, mid)

\* push_mapping: Vec::insert at the 0-based index the search ends with
push_mapping(self, id, mapping) ==
    LET at == binary_search_by(self.mappings_stack, mapping.layer,
                               0, Len(self.mappings_stack))
    IN  [self EXCEPT !.mappings_stack =
            SubSeq(@, 1, at) \o <<[id |-> id, mapping |-> mapping]>> \o
            SubSeq(@, at + 1, Len(@))]

pop_mapping(self) ==
    IF self.mappings_stack = <<>> THEN self
    ELSE [self EXCEPT !.mappings_stack = SubSeq(@, 1, Len(@) - 1)]

\* remove_mapping: the first entry with the id, if there is one
remove_mapping(self, id) ==
    LET found == {i \in 1..Len(self.mappings_stack) : self.mappings_stack[i].id = id}
    IN  IF found = {} THEN self
        ELSE LET first == CHOOSE i \in found : \A j \in found : i <= j
             IN  [self EXCEPT !.mappings_stack =
                     SubSeq(@, 1, first - 1) \o SubSeq(@, first + 1, Len(@))]

\* InputContext::stack
stack(self) == [i \in 1..Len(self.mappings_stack) |-> self.mappings_stack[i].mapping]

\* what one mapping does with a key event: the action and the axis bound to
\* the key are written
Offer(mapping, key, pressed) ==
    [mapping EXCEPT
        !.actions = [k \in DOMAIN @ |-> IF k = key THEN change(@[k], pressed) ELSE @[k]],
        !.axes = [k \in DOMAIN @ |-> IF k = key THEN (IF pressed THEN 1 ELSE 0) ELSE @[k]]]

\* slip: the loop goes on after a mapping consumed the event
OfferDown_no_break(self, index, key, pressed) ==
    [i \in 1..Len(self) |->
        IF i <= index
        THEN [self[i] EXCEPT !.mapping = Offer(@, key, pressed)]
        ELSE self[i]]

\* the loop of on_event over mappings_stack.iter().rev(), from entry `index`
\* downwards; it breaks after a mapping that consumes the event
RECURSIVE OfferDown(_, _, _, _)
OfferDown(self, index, key, pressed) ==
    IF index < 1 THEN self
    ELSE LET mapping == self[index].mapping
             hit == key \in DOMAIN mapping.actions \/ key \in DOMAIN mapping.axes
             consume == mapping.consume = "All" \/ (mapping.consume = "Hit" /\ hit)
             offered == [self EXCEPT ![index].mapping = Offer(mapping, key, pressed)]
         IN  IF consume THEN offered
             ELSE OfferDown(offered, index - 1, key, pressed)

\* on_event for WindowEvent::KeyboardInput { input, .. }: virtual_keycode is
\* an Option, state is Pressed or Released.  The arms of the other events
\* run the same loop over the bindings of their own kind.
on_event(self, virtual_keycode, pressed) ==
    IF virtual_keycode = None THEN self
    ELSE [self EXCEPT !.mappings_stack =
            OfferDown(@, Len(@), virtual_keycode[1], pressed)]

----------------------------------------------------------------------------
(* State machine.  `stream` is the stream under observation.  `other` is   *)
(* the stream handed by reference to the last append / append_cloned, as   *)
(* that call left it (empty after any other call).  `token` holds the      *)
(* token taken from `stream` while it still describes a suffix of it       *)
(* (<<>> otherwise).  `result` is the stream the last extract or drain     *)
(* handed back (empty after any other call).  `last` names the last call   *)
(* and its arguments, `calls` counts the calls made on `stream` since it   *)
(* was constructed or last emptied by clear or drain.                      *)

Room(n) == Len(stream.vertices) + n <= MaxVertices

BatchRoom(n) == Len(stream.batches) + n <= MaxBatches

Call(op, vs, ts, data, arg) ==
    [op |-> op, vertices |-> vs, triangles |-> ts, data |-> data, arg |-> arg]

NoData == "-"

\* what extend is called with: every local index is smaller than the number
\* of vertices of the same call
ExtendInputs ==
    { [vertices |-> <<>>, triangles |-> <<>>],
      [vertices |-> OwnVertices(1), triangles |-> <<[a |-> 0, b |-> 0, c |-> 0]>>],
      [vertices |-> OwnVertices(3),
       triangles |-> <<[a |-> 2, b |-> 1, c |-> 0], [a |-> 0, b |-> 2, c |-> 1]>>] }

\* streams a DrawBuffer can hold when it is submitted, built by the stream's
\* own operations
OtherStreams ==
    { new,
      triangle_fan(new, OtherVertices(3)),
      triangle_fan(batch(new, "X"), OtherVertices(3)),
      batch_end(triangle_fan(batch(new, "X"), OtherVertices(3))),
      batch(extend(batch(new, "X"), OtherVertices(2), <<Triangle(0, 1, 0)>>), "Y") }

Init ==
    /\ stream = new
    /\ other = new
    /\ token = <<>>
    /\ result = new
    /\ calls = 0
    /\ last = Call("new", <<>>, <<>>, NoData, new)
    /\ context = <<>>
    /\ state = GlowStateDefault
    /\ text = TextRenderer_new(PageWidth, PageHeight)
    /\ font = FontIdle
    /\ gpu = GpuDefault
    /\ draw = DrawContextDefault
    /\ tiles = TileMap_new(<<0, 0>>, 0)
    /\ input_context = InputContextDefault

Op_triangle ==
    /\ Room(3)
    /\ stream' = triangle(stream, OwnVertices(3))
    /\ calls < MaxCalls
    /\ calls' = calls + 1
    /\ UNCHANGED <<glowVars, textVars, gpu, sceneVars>>
    /\ last' = Call("triangle", OwnVertices(3), <<>>, NoData, new)
    /\ other' = new /\ result' = new /\ UNCHANGED token

Op_quad ==
    /\ Room(4)
    /\ stream' = quad(stream, OwnVertices(4))
    /\ calls < MaxCalls
    /\ calls' = calls + 1
    /\ UNCHANGED <<glowVars, textVars, gpu, sceneVars>>
    /\ last' = Call("quad", OwnVertices(4), <<>>, NoData, new)
    /\ other' = new /\ result' = new /\ UNCHANGED token

Op_triangle_fan ==
    \E n \in 0..MaxShape :
        /\ Room(n)
        /\ stream' = triangle_fan(stream, OwnVertices(n))
        /\ calls < MaxCalls
        /\ calls' = calls + 1
        /\ UNCHANGED <<glowVars, textVars, gpu, sceneVars>>
        /\ last' = Call("triangle_fan", OwnVertices(n), <<>>, NoData, new)
        /\ other' = new /\ result' = new /\ UNCHANGED token

Op_triangle_strip ==
    \E n \in 0..MaxShape :
        /\ Room(n)
        /\ stream' = triangle_strip(stream, OwnVertices(n))
        /\ calls < MaxCalls
        /\ calls' = calls + 1
        /\ UNCHANGED <<glowVars, textVars, gpu, sceneVars>>
        /\ last' = Call("triangle_strip", OwnVertices(n), <<>>, NoData, new)
        /\ other' = new /\ result' = new /\ UNCHANGED token

Op_extend ==
    \E input \in ExtendInputs :
        /\ Room(Len(input.vertices))
        /\ stream' = extend(stream, input.vertices, input.triangles)
        /\ calls < MaxCalls
        /\ calls' = calls + 1
        /\ UNCHANGED <<glowVars, textVars, gpu, sceneVars>>
        /\ last' = Call("extend", input.vertices, input.triangles, NoData, new)
        /\ other' = new /\ result' = new /\ UNCHANGED token

Op_batch ==
    \E data \in BatchData :
        /\ BatchRoom(1)
        /\ stream' = batch(stream, data)
        /\ calls < MaxCalls
        /\ calls' = calls + 1
        /\ UNCHANGED <<glowVars, textVars, gpu, sceneVars>>
        /\ last' = Call("batch", <<>>, <<>>, data, new)
        /\ other' = new /\ result' = new /\ UNCHANGED token

Op_batch_optimized ==
    \E data \in BatchData :
        /\ BatchRoom(1)
        /\ stream' = batch_optimized(stream, data)
        /\ calls < MaxCalls
        /\ calls' = calls + 1
        /\ UNCHANGED <<glowVars, textVars, gpu, sceneVars>>
        /\ last' = Call("batch_optimized", <<>>, <<>>, data, new)
        /\ other' = new /\ result' = new /\ UNCHANGED token

Op_batch_end ==
    /\ stream' = batch_end(stream)
    /\ calls < MaxCalls
    /\ calls' = calls + 1
    /\ UNCHANGED <<glowVars, textVars, gpu, sceneVars>>
    /\ last' = Call("batch_end", <<>>, <<>>, NoData, new)
    /\ other' = new /\ result' = new /\ UNCHANGED token

Op_clear ==
    /\ stream' = clear(stream)
    /\ token' = <<>>
    /\ calls' = 0
    /\ UNCHANGED <<glowVars, textVars, gpu, sceneVars>>
    /\ last' = Call("clear", <<>>, <<>>, NoData, new)
    /\ other' = new /\ result' = new

Op_append ==
    \E buffer \in OtherStreams :
        /\ Room(Len(buffer.vertices))
        /\ BatchRoom(Len(buffer.batches))
        /\ stream' = submit(stream, buffer).self
        /\ other' = submit(stream, buffer).other
        /\ calls < MaxCalls
        /\ calls' = calls + 1
        /\ UNCHANGED <<glowVars, textVars, gpu, sceneVars>>
        /\ last' = Call("append", <<>>, <<>>, NoData, buffer)
        /\ result' = new /\ UNCHANGED token

Op_append_cloned ==
    \E buffer \in OtherStreams :
        /\ Room(Len(buffer.vertices))
        /\ BatchRoom(Len(buffer.batches))
        /\ stream' = submit_cloned(stream, buffer).self
        /\ other' = submit_cloned(stream, buffer).other
        /\ calls < MaxCalls
        /\ calls' = calls + 1
        /\ UNCHANGED <<glowVars, textVars, gpu, sceneVars>>
        /\ last' = Call("append_cloned", <<>>, <<>>, NoData, buffer)
        /\ result' = new /\ UNCHANGED token

Op_token ==
    /\ token' = <<VertexStreamToken(stream)>>
    /\ calls < MaxCalls
    /\ calls' = calls + 1
    /\ UNCHANGED <<glowVars, textVars, gpu, sceneVars>>
    /\ last' = Call("token", <<>>, <<>>, NoData, new)
    /\ other' = new /\ result' = new /\ UNCHANGED stream

\* extract only takes away from the stream: it may also be the call that
\* follows the last one counted
Op_extract ==
    /\ token # <<>>
    /\ stream' = extract(stream, token[1]).self
    /\ result' = extract(stream, token[1]).result
    /\ calls <= MaxCalls
    /\ calls' = calls + 1
    /\ UNCHANGED <<glowVars, textVars, gpu, sceneVars>>
    /\ last' = Call("extract", <<>>, <<>>, NoData, new)
    /\ other' = new /\ UNCHANGED token

Op_render ==
    /\ stream' = render(stream)
    /\ calls < MaxCalls
    /\ calls' = calls + 1
    /\ UNCHANGED <<glowVars, textVars, gpu, sceneVars>>
    /\ last' = Call("render", <<>>, <<>>, NoData, new)
    /\ other' = new /\ result' = new /\ UNCHANGED token

Op_drain ==
    /\ stream' = drain(stream).self
    /\ result' = drain(stream).result
    /\ token' = <<>>
    /\ calls' = 0
    /\ UNCHANGED <<glowVars, textVars, gpu, sceneVars>>
    /\ last' = Call("drain", <<>>, <<>>, NoData, new)
    /\ other' = new

\* the closure handed to transformed as t
Transform == [v \in 0..999 |-> v + 100]

Op_transformed ==
    \E f \in {"nothing", "quad", "batch_triangle"} :
        /\ Room(Len(CallBuild(f, new).vertices))
        /\ BatchRoom(Len(CallBuild(f, new).batches))
        /\ stream' = transformed(stream, f, Transform)
        /\ calls < MaxCalls
        /\ calls' = calls + 1
        /\ UNCHANGED <<glowVars, textVars, gpu, sceneVars>>
        /\ last' = Call("transformed", CallBuild(f, new).vertices, <<>>, f, new)
        /\ other' = new /\ result' = new /\ UNCHANGED token

Next ==
    \/ Op_triangle
    \/ Op_quad
    \/ Op_triangle_fan
    \/ Op_triangle_strip
    \/ Op_extend
    \/ Op_batch
    \/ Op_batch_optimized
    \/ Op_batch_end
    \/ Op_clear
    \/ Op_append
    \/ Op_append_cloned
    \/ Op_token
    \/ Op_extract
    \/ Op_render
    \/ Op_drain
    \/ Op_transformed

Spec == Init /\ [][Next]_vars

----------------------------------------------------------------------------
(* State machine of a Graphics: `stream` is Graphics::stream, filled by    *)
(* the frame's emitters with batches in their resolved form (GlowBatch),   *)
(* `state` is its GlowState, `context` holds the GL calls of the last      *)
(* operation.  After draw, `last` holds its result and the stream as it    *)
(* was handed to the renderer.                                             *)

\* batches and triangles emitted into one frame
MaxFrameBatches == 2
MaxFrameTriangles == 5

Uniform(name, value) == [name |-> name, value |-> value]

Texture(texture, min_filter, mag_filter) ==
    [texture |-> texture, target |-> "TEXTURE_2D_ARRAY",
     min_filter |-> min_filter, mag_filter |-> mag_filter]

\* the render states the emitters of a frame choose from
GlowBatches ==
    { GlowBatchDefault,
      GlowBatch(Some("X"), {}, <<>>, into_gl("Alpha"), None, FALSE),
      GlowBatch(Some("X"), {Uniform("u", 1)}, <<>>, into_gl("Alpha"), None, FALSE),
      GlowBatch(Some("X"), {Uniform("u", 1)}, <<>>, into_gl("Additive"), None, FALSE),
      GlowBatch(Some("X"), {Uniform("u", 2), Uniform("v", 1)},
                <<Texture("T1", "NEAREST", "NEAREST")>>,
                into_gl("Alpha"), Some(<<0, 0, 8, 8>>), FALSE),
      GlowBatch(Some("Y"), {Uniform("u", 1), Uniform("w", 1)},
                <<Texture("T1", "NEAREST", "NEAREST"), Texture("T2", "LINEAR", "LINEAR")>>,
                into_gl("None"), Some(<<0, 0, 8, 8>>), TRUE),
      GlowBatch(None, {}, <<Texture("T2", "LINEAR", "LINEAR")>>,
                into_gl("Multiply"), None, TRUE) }

\* what `last` holds while the frame is being filled
Emitted == Call("emit", <<>>, <<>>, NoData, new)

FrameRoom(triangles) == Len(stream.triangles) + triangles <= MaxFrameTriangles

\* the frame loop calls prepare_frame, lets the frame's emitters fill the
\* stream and calls draw (crates/glow/src/app.rs)
Prepared == last.op \in {"prepare_frame", "emit"}

GlowInit ==
    /\ stream = new
    /\ other = new
    /\ token = <<>>
    /\ result = new
    /\ calls = 0
    /\ last = Call("new", <<>>, <<>>, NoData, new)
    /\ context = <<>>
    /\ state = GlowStateDefault
    /\ text = TextRenderer_new(PageWidth, PageHeight)
    /\ font = FontIdle
    /\ gpu = GpuDefault
    /\ draw = DrawContextDefault
    /\ tiles = TileMap_new(<<0, 0>>, 0)
    /\ input_context = InputContextDefault

Frame_batch ==
    \E data \in GlowBatches :
        /\ Prepared
        /\ Len(stream.batches) < MaxFrameBatches
        /\ stream' = batch(stream, data)
        /\ context' = <<>>
        /\ last' = Emitted
        /\ UNCHANGED <<state, other, token, result, calls, textVars, gpu, sceneVars>>

Frame_batch_optimized ==
    \E data \in GlowBatches :
        /\ Prepared
        /\ Len(stream.batches) < MaxFrameBatches
        /\ stream' = batch_optimized(stream, data)
        /\ context' = <<>>
        /\ last' = Emitted
        /\ UNCHANGED <<state, other, token, result, calls, textVars, gpu, sceneVars>>

Frame_triangle ==
    /\ Prepared
    /\ FrameRoom(1)
    /\ stream' = triangle(stream, OwnVertices(3))
    /\ context' = <<>>
    /\ last' = Emitted
    /\ UNCHANGED <<state, other, token, result, calls, textVars, gpu, sceneVars>>

\* the frame loop calls prepare_frame before the frame's emitters run
Frame_prepare_frame ==
    /\ last.op \in {"new", "draw"}
    /\ context' = Graphics_prepare_frame
    /\ gpu' = GpuCalls(gpu, Graphics_prepare_frame, 1)
    /\ last' = Call("prepare_frame", <<>>, <<>>, NoData, new)
    /\ UNCHANGED <<stream, state, other, token, result, calls, textVars, sceneVars>>

\* creating the mesh can fail only while there is none
Frame_draw ==
    \E fail \in BOOLEAN :
        /\ Prepared
        /\ state.mesh # None => ~fail
        /\ LET drawn == Graphics_draw(stream, state, fail)
           IN  /\ stream' = drawn.stream
               /\ state' = drawn.state
               /\ context' = drawn.calls
               /\ gpu' = GpuCalls(gpu, drawn.calls, 1)
               /\ last' = Call("draw", <<>>, <<>>, drawn.result, batch_end(stream))
        /\ UNCHANGED <<other, token, result, calls, textVars, sceneVars>>

GlowNext ==
    \/ Frame_batch
    \/ Frame_batch_optimized
    \/ Frame_triangle
    \/ Frame_prepare_frame
    \/ Frame_draw

SpecGlow == GlowInit /\ [][GlowNext]_vars

----------------------------------------------------------------------------
(* State machine of a TextRenderer: `text` is the renderer, `font` the     *)
(* font backend's call counts, `stream` the stream the glyph quads are     *)
(* drained into, `result` what consume_renderables returned, `calls` the   *)
(* number of include calls since the renderer was constructed or cleared.  *)

\* include calls between two clears
MaxIncludes == 3
\* glyphs waiting in ready_to_render
MaxQueue == 3
\* vertices of the destination stream
MaxTextVertices == 8

\* the lines of text that are laid out and included
Layouts ==
    { Layout(<<"a">>),
      Layout(<<"b", "space", "a">>),
      Layout(<<"c", "c">>),
      Layout(<<"a", "big", "c">>),
      Layout(<<"big">>),
      Layout(<<"space">>) }

Queued(self) == Len(self.ready_to_render)

Rasterized(layout) == SelectSeq(layout, LAMBDA g : g.rasterize)

TextInit ==
    /\ stream = new
    /\ other = new
    /\ token = <<>>
    /\ result = <<>>
    /\ calls = 0
    /\ last = Call("new", <<>>, <<>>, NoData, <<>>)
    /\ context = <<>>
    /\ state = GlowStateDefault
    /\ text = TextRenderer_new(PageWidth, PageHeight)
    /\ font = FontIdle
    /\ gpu = GpuDefault
    /\ draw = DrawContextDefault
    /\ tiles = TileMap_new(<<0, 0>>, 0)
    /\ input_context = InputContextDefault

Text_include ==
    \E layout \in Layouts :
        /\ calls < MaxIncludes
        /\ Queued(text) + Len(Rasterized(layout)) <= MaxQueue
        /\ LET included == TextRenderer_include([text |-> text, font |-> font], layout, 1)
           IN  /\ text' = included.text
               /\ font' = included.font
        /\ calls' = calls + 1
        /\ result' = <<>>
        /\ last' = Call("include", <<>>, <<>>, NoData, layout)
        /\ UNCHANGED <<stream, other, token, glowVars, gpu, sceneVars>>

Text_clear ==
    /\ text' = TextRenderer_clear(text)
    /\ font' = FontIdle
    /\ calls' = 0
    /\ result' = <<>>
    /\ last' = Call("clear", <<>>, <<>>, NoData, <<>>)
    /\ UNCHANGED <<stream, other, token, glowVars, gpu, sceneVars>>

Text_consume_renderables ==
    /\ text' = TextRenderer_consume_renderables(text).self
    /\ result' = TextRenderer_consume_renderables(text).result
    /\ last' = Call("consume_renderables", <<>>, <<>>, NoData, text.ready_to_render)
    /\ UNCHANGED <<stream, other, token, calls, font, glowVars, gpu, sceneVars>>

Text_render_to_stream ==
    /\ Len(stream.vertices)
          + 4 * Len(TextRenderer_consume_renderables(text).result) <= MaxTextVertices
    /\ text' = TextRenderer_render_to_stream(text, stream).self
    /\ stream' = TextRenderer_render_to_stream(text, stream).stream
    /\ result' = <<>>
    /\ last' = Call("render_to_stream", <<>>, <<>>, NoData, text.ready_to_render)
    /\ UNCHANGED <<other, token, calls, font, glowVars, gpu, sceneVars>>

\* the destination stream is emptied by its owner at the end of a frame
Text_stream_clear ==
    /\ stream' = clear(stream)
    /\ result' = <<>>
    /\ last' = Call("stream_clear", <<>>, <<>>, NoData, <<>>)
    /\ UNCHANGED <<other, token, calls, text, font, glowVars, gpu, sceneVars>>

TextNext ==
    \/ Text_include
    \/ Text_clear
    \/ Text_consume_renderables
    \/ Text_render_to_stream
    \/ Text_stream_clear

SpecText == TextInit /\ [][TextNext]_vars

----------------------------------------------------------------------------
(* State machine of a DrawContext: `draw` is the context, `text` its       *)
(* text_renderer, `stream` the stream of the Graphics the texts are drawn  *)
(* into.  `calls` counts the texts drawn since the frame began, `result`   *)
(* holds the glyphs that were cached when the frame began.                 *)

\* texts drawn in one frame, and the depth of each stack
MaxDraws == 2
MaxStack == 1

\* shaders: "lit" is registered under its name by the application, "flat"
\* is handed around as an object, "ghost" is a name nobody registers
ShaderRefs == {Name("lit"), Object("flat"), Name("ghost")}

Transforms == {1}

Blendings == {"Additive"}

Texts ==
    { [shader |-> None, transform |-> 0, layout |-> Some(Layout(<<"a">>))],
      [shader |-> Some(Name("lit")), transform |-> 1,
       layout |-> Some(Layout(<<"b", "space", "a">>))],
      [shader |-> Some(Name("ghost")), transform |-> 0, layout |-> None] }

\* the frame loop: begin_frame, the frame's drawing, end_frame, and
\* Graphics::draw, which empties the stream
InFrame ==
    last.op \in {"begin_frame", "text", "push_shader", "push_transform",
                 "push_blending", "with_shader", "with_transform", "with_blending"}

DrawInit ==
    /\ stream = new
    /\ other = new
    /\ token = <<>>
    /\ result = <<>>
    /\ calls = 0
    /\ last = Call("new", <<>>, <<>>, NoData, <<>>)
    /\ context = <<>>
    /\ state = GlowStateDefault
    /\ text = TextRenderer_new(PageWidth, PageHeight)
    /\ font = FontIdle
    /\ gpu = GpuDefault
    /\ draw = DrawContextDefault
    /\ tiles = TileMap_new(<<0, 0>>, 0)
    /\ input_context = InputContextDefault

\* context.shaders.insert(name, shader)
Draw_shaders_insert ==
    /\ last.op = "new"
    /\ draw' = [draw EXCEPT !.shaders = @ \cup {"lit"}]
    /\ last' = Call("shaders_insert", <<>>, <<>>, NoData, "lit")
    /\ UNCHANGED <<stream, other, token, result, calls, textVars, glowVars, gpu,
                   tiles, input_context>>

Draw_begin_frame ==
    \E ok \in BOOLEAN :
        /\ ~InFrame /\ last.op # "end_frame"
        /\ draw' = begin_frame(draw, text, ok).context
        /\ text' = begin_frame(draw, text, ok).text_renderer
        /\ font' = FontIdle
        /\ calls' = 0
        /\ result' = text.used_glyphs
        /\ last' = Call("begin_frame", <<>>, <<>>, NoData, ok)
        /\ UNCHANGED <<stream, other, token, glowVars, gpu, tiles, input_context>>

\* `last.arg` holds the upload
Draw_end_frame ==
    /\ InFrame
    /\ last' = Call("end_frame", <<>>, <<>>, NoData, end_frame(draw, text))
    /\ UNCHANGED <<stream, other, token, result, calls, draw, textVars, glowVars, gpu,
                   tiles, input_context>>

Draw_text ==
    \E self \in Texts :
        /\ InFrame
        /\ calls < MaxDraws
        /\ \E drawn \in {Text_draw(self, draw, [text |-> text, font |-> font], stream)} :
               /\ Len(drawn.stream.vertices) <= MaxTextVertices
               /\ text' = drawn.text
               /\ font' = drawn.font
               /\ stream' = drawn.stream
        /\ calls' = calls + 1
        /\ last' = Call("text", <<>>, <<>>, NoData, self)
        /\ UNCHANGED <<other, token, result, draw, glowVars, gpu, tiles, input_context>>

Draw_push_shader ==
    \E shader \in ShaderRefs :
        /\ InFrame
        /\ Len(draw.shaders_stack) < MaxStack
        /\ draw' = push_shader(draw, shader)
        /\ last' = Call("push_shader", <<>>, <<>>, NoData, shader)
        /\ UNCHANGED <<stream, other, token, result, calls, textVars, glowVars, gpu,
                       tiles, input_context>>

Draw_push_transform ==
    \E transform \in Transforms :
        /\ InFrame
        /\ Len(draw.transform_stack) < MaxStack
        /\ draw' = push_transform(draw, transform)
        /\ last' = Call("push_transform", <<>>, <<>>, NoData, transform)
        /\ UNCHANGED <<stream, other, token, result, calls, textVars, glowVars, gpu,
                       tiles, input_context>>

Draw_push_blending ==
    \E blending \in Blendings :
        /\ InFrame
        /\ Len(draw.blending_stack) < MaxStack
        /\ draw' = push_blending(draw, blending)
        /\ last' = Call("push_blending", <<>>, <<>>, NoData, blending)
        /\ UNCHANGED <<stream, other, token, result, calls, textVars, glowVars, gpu,
                       tiles, input_context>>

Draw_with_shader ==
    \E shader \in ShaderRefs :
        /\ InFrame
        /\ draw' = with_shader(draw, shader)
        /\ last' = Call("with_shader", <<>>, <<>>, NoData, shader)
        /\ UNCHANGED <<stream, other, token, result, calls, textVars, glowVars, gpu,
                       tiles, input_context>>

Draw_with_transform ==
    \E transform \in Transforms :
        /\ InFrame
        /\ draw' = with_transform(draw, transform)
        /\ last' = Call("with_transform", <<>>, <<>>, NoData, transform)
        /\ UNCHANGED <<stream, other, token, result, calls, textVars, glowVars, gpu,
                       tiles, input_context>>

Draw_with_blending ==
    \E blending \in Blendings :
        /\ InFrame
        /\ draw' = with_blending(draw, blending)
        /\ last' = Call("with_blending", <<>>, <<>>, NoData, blending)
        /\ UNCHANGED <<stream, other, token, result, calls, textVars, glowVars, gpu,
                       tiles, input_context>>

\* Graphics::draw empties the stream once the frame is submitted
Draw_stream_clear ==
    /\ last.op = "end_frame"
    /\ stream' = clear(stream)
    /\ last' = Call("stream_clear", <<>>, <<>>, NoData, <<>>)
    /\ UNCHANGED <<other, token, result, calls, draw, textVars, glowVars, gpu,
                   tiles, input_context>>

DrawNext ==
    \/ Draw_shaders_insert
    \/ Draw_begin_frame
    \/ Draw_end_frame
    \/ Draw_text
    \/ Draw_push_shader
    \/ Draw_push_transform
    \/ Draw_push_blending
    \/ Draw_with_shader
    \/ Draw_with_transform
    \/ Draw_with_blending
    \/ Draw_stream_clear

SpecDraw == DrawInit /\ [][DrawNext]_vars

----------------------------------------------------------------------------
(* State machine of a TileMap: `tiles` is the map, made by TileMap::new    *)
(* with every cell 0.  After get, `last.arg` holds the location and the    *)
(* Option handed back.                                                     *)

\* size of the map and the largest tile id written
MapWidth == 3
MapHeight == 2
MaxId == 2

\* the locations get and set are called with: every cell of the map and
\* the first column and row outside it
Locations == {<<x, y>> : x \in 0..MapWidth, y \in 0..MapHeight}

TileInit ==
    /\ stream = new
    /\ other = new
    /\ token = <<>>
    /\ result = <<>>
    /\ calls = 0
    /\ last = Call("new", <<>>, <<>>, NoData, <<>>)
    /\ context = <<>>
    /\ state = GlowStateDefault
    /\ text = TextRenderer_new(PageWidth, PageHeight)
    /\ font = FontIdle
    /\ gpu = GpuDefault
    /\ draw = DrawContextDefault
    /\ tiles = TileMap_new(<<MapWidth, MapHeight>>, 0)
    /\ input_context = InputContextDefault

Tile_set ==
    \E location \in Locations, id \in 1..MaxId :
        /\ tiles' = TileMap_set(tiles, location, id)
        /\ last' = Call("set", <<>>, <<>>, NoData, [location |-> location, id |-> id])
        /\ UNCHANGED <<stream, other, token, result, calls, textVars, glowVars, gpu,
                       draw, input_context>>

Tile_get ==
    \E location \in Locations :
        /\ last' = Call("get", <<>>, <<>>, NoData,
                        [location |-> location, id |-> TileMap_get(tiles, location)])
        /\ UNCHANGED <<stream, other, token, result, calls, textVars, glowVars, gpu,
                       draw, tiles, input_context>>

TileNext ==
    \/ Tile_set
    \/ Tile_get

SpecTiles == TileInit /\ [][TileNext]_vars

----------------------------------------------------------------------------
(* State machine of an InputContext: `input_context` is the context,       *)
(* `calls` the number of IDs handed out so far.  `last` names the last     *)
(* call and its arguments.                                                 *)

\* mappings pushed over the life of the context
MaxMappings == 3

\* the mappings the parts of an application push
Mappings ==
    { InputMapping(0, "None", {"A"}, {}),
      InputMapping(0, "Hit", {"A"}, {}),
      InputMapping(1, "Hit", {}, {"B"}),
      InputMapping(-1, "All", {}, {"A"}) }

InputInit ==
    /\ stream = new
    /\ other = new
    /\ token = <<>>
    /\ result = <<>>
    /\ calls = 0
    /\ last = Call("new", <<>>, <<>>, NoData, <<>>)
    /\ context = <<>>
    /\ state = GlowStateDefault
    /\ text = TextRenderer_new(PageWidth, PageHeight)
    /\ font = FontIdle
    /\ gpu = GpuDefault
    /\ draw = DrawContextDefault
    /\ tiles = TileMap_new(<<0, 0>>, 0)
    /\ input_context = InputContextDefault

Input_push_mapping ==
    \E mapping \in Mappings :
        /\ calls < MaxMappings
        /\ input_context' = push_mapping(input_context, calls + 1, mapping)
        /\ calls' = calls + 1
        /\ last' = Call("push_mapping", <<>>, <<>>, NoData, calls + 1)
        /\ UNCHANGED <<stream, other, token, result, textVars, glowVars, gpu, draw, tiles>>

Input_pop_mapping ==
    /\ input_context' = pop_mapping(input_context)
    /\ last' = Call("pop_mapping", <<>>, <<>>, NoData, <<>>)
    /\ UNCHANGED <<stream, other, token, result, calls, textVars, glowVars, gpu,
                   draw, tiles>>

\* the id is one the context handed out, still on the stack or not
Input_remove_mapping ==
    \E id \in 1..calls :
        /\ input_context' = remove_mapping(input_context, id)
        /\ last' = Call("remove_mapping", <<>>, <<>>, NoData, id)
        /\ UNCHANGED <<stream, other, token, result, calls, textVars, glowVars, gpu,
                       draw, tiles>>

Input_on_event ==
    \E virtual_keycode \in {None, Some("A"), Some("B")}, pressed \in BOOLEAN :
        /\ input_context' = on_event(input_context, virtual_keycode, pressed)
        /\ last' = Call("on_event", <<>>, <<>>, NoData,
                        [virtual_keycode |-> virtual_keycode, pressed |-> pressed])
        /\ UNCHANGED <<stream, other, token, result, calls, textVars, glowVars, gpu,
                       draw, tiles>>

InputNext ==
    \/ Input_push_mapping
    \/ Input_pop_mapping
    \/ Input_remove_mapping
    \/ Input_on_event

SpecInput == InputInit /\ [][InputNext]_vars



----------------------------------------------------------------------------
(* Properties of the geometry stream *)

Lengths(self) ==
    <<Len(self.vertices), Len(self.triangles), Len(self.batches)>>

IndicesInRange(self) ==
    \A i \in 1..Len(self.triangles) :
        /\ self.triangles[i].a < Len(self.vertices)
        /\ self.triangles[i].b < Len(self.vertices)
        /\ self.triangles[i].c < Len(self.vertices)

\* ranges in order, none overlapping, covering [0, n) without a gap
IsPartition(batches, n) ==
    /\ n > 0 => batches # <<>>
    /\ batches # <<>> =>
          /\ batches[1].start = 0
          /\ batches[Len(batches)].end = n
    /\ \A i \in 1..Len(batches) : batches[i].start <= batches[i].end
    /\ \A i \in 1..(Len(batches) - 1) : batches[i + 1].start = batches[i].end

ShiftTriangles(triangles, by) ==
    [i \in 1..Len(triangles) |->
        [a |-> triangles[i].a + by, b |-> triangles[i].b + by, c |-> triangles[i].c + by]]

ShiftBatches(batches, by) ==
    [i \in 1..Len(batches) |->
        [data |-> batches[i].data,
         start |-> batches[i].start + by,
         end |-> batches[i].end + by]]

\* C1: after the stream is finalized by batch_end, render or drain, its
\* batches are in append order, do not overlap and cover
\* [0, triangles().len()) with no gap: the first range starts at 0, each
\* range starts where the previous one ends, the last ends at the triangle
\* count.
C1_FinalizedBatchesPartition ==
    /\ last.op \in {"batch_end", "render"} =>
          IsPartition(stream.batches, Len(stream.triangles))
    /\ last.op = "drain" =>
          IsPartition(result.batches, Len(result.triangles))

\* C2: every stored triangle refers only to vertices the stream holds, in the
\* observed stream, in a stream that was spliced in and in a stream that
\* extract or drain handed back.
C2_TrianglesReferToVertices ==
    /\ IndicesInRange(stream)
    /\ IndicesInRange(other)
    /\ IndicesInRange(result)

C2_Witness ==
    /\ last.op = "extract"
    /\ token[1].vertices > 0
    /\ Len(stream.triangles) > 0
    /\ Len(result.triangles) > 0

\* C3: extract(t) hands back exactly what was appended after t was taken: the
\* vertices in order, the triangles with every index reduced by t's vertex
\* count, the batches with both bounds reduced by t's triangle count; the
\* source is left with the lengths recorded in t.
C3_ExtractReturnsSuffix ==
    [][last'.op = "extract" =>
        LET t == token[1]
        IN  /\ result'.vertices =
                  SubSeq(stream.vertices, t.vertices + 1, Len(stream.vertices))
            /\ result'.triangles =
                  ShiftTriangles(
                      SubSeq(stream.triangles, t.triangles + 1, Len(stream.triangles)),
                      0 - t.vertices)
            /\ result'.batches =
                  ShiftBatches(
                      SubSeq(stream.batches, t.batches + 1, Len(stream.batches)),
                      0 - t.triangles)
            /\ Lengths(stream') = <<t.vertices, t.triangles, t.batches>>]_vars

C3_Witness ==
    /\ last.op = "extract"
    /\ token[1].vertices > 0
    /\ token[1].triangles > 0
    /\ Len(result.vertices) > 0
    /\ Len(result.triangles) > 0
    /\ Len(result.batches) > 0

\* C4: batch_optimized(S) with S equal to the last batch's state adds no batch
\* and moves that batch's end to the current triangle count; with another
\* state, or with no batch yet, it closes the last range at the current
\* triangle count and opens exactly one range [count, count) for S.
C4_BatchOptimizedMergesOrOpens ==
    [][last'.op = "batch_optimized" =>
        LET n == Len(stream.batches)
            count == Len(stream.triangles)
        IN  /\ stream'.vertices = stream.vertices
            /\ stream'.triangles = stream.triangles
            /\ \A i \in 1..(n - 1) : stream'.batches[i] = stream.batches[i]
            /\ IF n > 0 /\ stream.batches[n].data = last'.data
               THEN /\ Len(stream'.batches) = n
                    /\ stream'.batches[n] =
                          [data |-> last'.data,
                           start |-> stream.batches[n].start,
                           end |-> count]
               ELSE /\ Len(stream'.batches) = n + 1
                    /\ n > 0 =>
                          stream'.batches[n] =
                              [data |-> stream.batches[n].data,
                               start |-> stream.batches[n].start,
                               end |-> count]
                    /\ stream'.batches[n + 1] =
                          [data |-> last'.data, start |-> count, end |-> count]]_vars

\* two batch_optimized calls with the same state around a triangle: one range
C4_Witness ==
    /\ last.op = "batch_optimized"
    /\ Len(stream.batches) = 1
    /\ stream.batches[1].data = last.data
    /\ stream.batches[1].end > stream.batches[1].start

\* C5: append(other) leaves other empty and adds other's vertices unchanged
\* and in order, its triangles with every index raised by the destination's
\* vertex count before the call, and its batches with both bounds raised by
\* the destination's triangle count before the call.
C5_AppendDrainsAndTranslates ==
    [][last'.op = "append" =>
        /\ other' = [vertices |-> <<>>, triangles |-> <<>>, batches |-> <<>>]
        /\ stream'.vertices = stream.vertices \o last'.arg.vertices
        /\ stream'.triangles =
              stream.triangles \o
                  ShiftTriangles(last'.arg.triangles, Len(stream.vertices))
        /\ stream'.batches =
              stream.batches \o
                  ShiftBatches(last'.arg.batches, Len(stream.triangles))]_vars

C5_Witness ==
    /\ last.op = "append"
    /\ Len(last.arg.triangles) > 0
    /\ Len(last.arg.batches) > 0
    /\ Len(stream.vertices) > Len(last.arg.vertices)
    /\ Len(stream.triangles) > Len(last.arg.triangles)
    /\ Len(stream.batches) > Len(last.arg.batches)

\* C6: append_cloned(other) leaves other as it was and leaves the destination
\* in the state append(other) produces from the same destination.
C6_AppendClonedMatchesAppend ==
    [][last'.op = "append_cloned" =>
        /\ other' = last'.arg
        /\ stream' = append(stream, last'.arg).self]_vars

C6_Witness ==
    /\ last.op = "append_cloned"
    /\ other = last.arg
    /\ Len(other.triangles) > 0
    /\ Len(other.batches) > 0
    /\ Len(stream.triangles) > Len(other.triangles)

NoLengthReduced ==
    /\ Len(stream'.vertices) >= Len(stream.vertices)
    /\ Len(stream'.triangles) >= Len(stream.triangles)
    /\ Len(stream'.batches) >= Len(stream.batches)

\* C7 as stated: clear() leaves the stream empty, and only clear() and
\* extract() reduce the number of vertices, triangles or batches of the stream
\* they are called on.
C7_OnlyClearAndExtractReduce ==
    [][/\ last'.op = "clear" => Lengths(stream') = <<0, 0, 0>>
       /\ last'.op \notin {"clear", "extract"} => NoLengthReduced]_vars

\* C7 (amended): clear() leaves the stream empty, and only clear(), extract()
\* and drain() reduce the number of vertices, triangles or batches of the
\* stream they are called on.
C7_OnlyClearExtractDrainReduce ==
    [][/\ last'.op = "clear" => Lengths(stream') = <<0, 0, 0>>
       /\ last'.op \notin {"clear", "extract", "drain"} => NoLengthReduced]_vars

\* drain has taken a stream with vertices, triangles and batches
C7_Witness ==
    /\ last.op = "drain"
    /\ Lengths(stream) = <<0, 0, 0>>
    /\ Len(result.vertices) > 0
    /\ Len(result.triangles) > 0
    /\ Len(result.batches) > 0

\* C8: quad on a stream that holds n vertices appends the four vertices in
\* order and exactly the triangles (n, n+1, n+2) and (n+2, n+3, n), in that
\* order.
C8_QuadTriangles ==
    [][last'.op = "quad" =>
        LET n == Len(stream.vertices)
        IN  /\ Len(last'.vertices) = 4
            /\ stream'.vertices = stream.vertices \o last'.vertices
            /\ stream'.triangles =
                  stream.triangles \o
                      << [a |-> n, b |-> n + 1, c |-> n + 2],
                         [a |-> n + 2, b |-> n + 3, c |-> n] >>
            /\ stream'.batches = stream.batches]_vars

C8_Witness ==
    /\ last.op = "quad"
    /\ Len(stream.vertices) > 4
    /\ Len(stream.triangles) >= 2

Max0(x) == IF x > 0 THEN x ELSE 0

\* C9: triangle_fan with N vertices on a stream that holds n vertices appends
\* the N vertices and exactly max(N-2, 0) triangles, the i-th (from 0) being
\* (n, n+1+i, n+2+i); with N < 3 it appends no triangle.
C9_FanTriangles ==
    [][last'.op = "triangle_fan" =>
        LET n == Len(stream.vertices)
            N == Len(last'.vertices)
        IN  /\ stream'.vertices = stream.vertices \o last'.vertices
            /\ stream'.triangles =
                  stream.triangles \o
                      [k \in 1..Max0(N - 2) |->
                          [a |-> n, b |-> n + k, c |-> n + 1 + k]]
            /\ stream'.batches = stream.batches]_vars

C9_Witness ==
    /\ last.op = "triangle_fan"
    /\ Len(last.vertices) = 5
    /\ Len(stream.vertices) > 5
    /\ Len(stream.triangles) >= 3

\* C10: triangle_strip with N vertices on a stream that holds n vertices
\* appends the N vertices and exactly max(N-2, 0) triangles with alternating
\* winding: the i-th (from 0) is (n+i, n+i+1, n+i+2) for even i and
\* (n+i+1, n+i, n+i+2) for odd i.
C10_StripTriangles ==
    [][last'.op = "triangle_strip" =>
        LET n == Len(stream.vertices)
            N == Len(last'.vertices)
        IN  /\ stream'.vertices = stream.vertices \o last'.vertices
            /\ stream'.triangles =
                  stream.triangles \o
                      [k \in 1..Max0(N - 2) |->
                          IF (k - 1) % 2 = 0
                          THEN [a |-> n + k - 1, b |-> n + k, c |-> n + k + 1]
                          ELSE [a |-> n + k, b |-> n + k - 1, c |-> n + k + 1]]
            /\ stream'.batches = stream.batches]_vars

C10_Witness ==
    /\ last.op = "triangle_strip"
    /\ Len(last.vertices) = 5
    /\ Len(stream.vertices) > 5
    /\ Len(stream.triangles) >= 3

\* C11 as stated: triangle_fan or triangle_strip called with fewer than 3
\* vertices leaves the stream's vertices, triangles and batches exactly as
\* they were before the call.
C11_ShortShapeLeavesStreamUnchanged ==
    [][(/\ last'.op \in {"triangle_fan", "triangle_strip"}
        /\ Len(last'.vertices) < 3) => stream' = stream]_vars

\* C11 amended: triangle_fan or triangle_strip called with N < 3 vertices
\* appends no triangle and leaves the batches as they were, but the N
\* vertices are appended to the stream's vertices.
C11_ShortShapeAppendsOnlyVertices ==
    [][(/\ last'.op \in {"triangle_fan", "triangle_strip"}
        /\ Len(last'.vertices) < 3) =>
            /\ stream'.vertices = stream.vertices \o last'.vertices
            /\ stream'.triangles = stream.triangles
            /\ stream'.batches = stream.batches]_vars

C11_Witness ==
    /\ last.op \in {"triangle_fan", "triangle_strip"}
    /\ Len(last.vertices) \in {1, 2}
    /\ Len(stream.vertices) > Len(last.vertices)
    /\ Len(stream.triangles) > 0

\* C12: transformed(build, transform) applies transform exactly once to each
\* vertex that build appended and to no other: the vertices present before
\* the call keep their values, and the triangles and batches afterwards are
\* exactly those build left behind.
C12_TransformedTouchesOnlyBuilt ==
    [][last'.op = "transformed" =>
        LET n == Len(stream.vertices)
            built == CallBuild(last'.data, stream)
        IN  /\ Len(stream'.vertices) = Len(built.vertices)
            /\ \A i \in 1..n : stream'.vertices[i] = stream.vertices[i]
            /\ \A i \in (n + 1)..Len(built.vertices) :
                  stream'.vertices[i] = Transform[built.vertices[i]]
            /\ stream'.triangles = built.triangles
            /\ stream'.batches = built.batches]_vars

C12_Witness ==
    /\ last.op = "transformed"
    /\ last.data = "batch_triangle"
    /\ Len(last.vertices) = 3
    /\ Len(stream.vertices) > 3
    /\ stream.vertices[1] < 100
    /\ stream.vertices[Len(stream.vertices)] >= 100

----------------------------------------------------------------------------
(* Properties of the batch submission, read off the GL calls of a draw *)

\* the batches handed to the renderer by the last draw
Submitted == last.arg.batches

\* positions of the indexed draw calls among the calls of the last draw
DrawAt ==
    SelectSeq([i \in 1..Len(context) |-> i],
              LAMBDA i : context[i].call = "draw_elements")

\* the calls issued for the k-th batch: those after the draw call of the
\* batch before it, up to its own draw call
IssuedFor(k) ==
    SubSeq(context, IF k = 1 THEN 1 ELSE DrawAt[k - 1] + 1, DrawAt[k])

\* the state the k-th batch is compared with
Previous(k) == IF k = 1 THEN GlowBatchDefault ELSE Submitted[k - 1].data

Named(issued, names) == SelectSeq(issued, LAMBDA c : c.call \in names)

Toggles(issued, capability) ==
    SelectSeq(issued, LAMBDA c : c.call \in {"enable", "disable"}
                                 /\ c.args = <<capability>>)

Uploads(target) ==
    { i \in 1..Len(context) :
        /\ context[i].call = "buffer_data_u8_slice"
        /\ context[i].args[1] = target }

UploadedOnceBeforeDraws ==
    /\ \E i \in Uploads("ARRAY_BUFFER") :
          /\ Uploads("ARRAY_BUFFER") = {i}
          /\ context[i].args[2] = last.arg.vertices
          /\ \A k \in 1..Len(DrawAt) : i < DrawAt[k]
    /\ \E i \in Uploads("ELEMENT_ARRAY_BUFFER") :
          /\ Uploads("ELEMENT_ARRAY_BUFFER") = {i}
          /\ context[i].args[2] = last.arg.triangles
          /\ \A k \in 1..Len(DrawAt) : i < DrawAt[k]

OneDrawPerBatchInOrder ==
    /\ Len(DrawAt) = Len(Submitted)
    /\ \A k \in 1..Len(DrawAt) :
          LET range == Submitted[k]
              drawn == context[DrawAt[k]]
          IN  /\ drawn.args[2] = 3 * (range.end - range.start)
              /\ drawn.args[4] = SizeOfU32 * (3 * range.start)

ScenarioAB ==
    /\ last.data = "Ok"
    /\ Len(Submitted) = 2
    /\ Submitted[1] =
          Batch(GlowBatch(Some("X"), {Uniform("u", 1)}, <<>>, into_gl("Alpha"), None, FALSE), 0, 2)
    /\ Submitted[2] =
          Batch(GlowBatch(Some("X"), {Uniform("u", 1)}, <<>>, into_gl("Additive"), None, FALSE), 2, 5)

\* C14: a shader-bind call is issued only for a batch whose program differs
\* from the previous batch's; for A then B of the scenario the shader-bind
\* call is issued exactly once and the blend-mode call exactly twice.
C14_ShaderBoundOnlyOnChange ==
    last.op = "draw" =>
        /\ \A k \in 1..Len(DrawAt) :
              Named(IssuedFor(k), {"use_program"}) # <<>> =>
                  Submitted[k].data.shader_program # Previous(k).shader_program
        /\ ScenarioAB =>
              /\ Len(Named(context, {"use_program"})) = 1
              /\ Len(Named(context, {"blend_func"})) = 2

\* C15: for each batch of a submission a blend-mode, a scissor and a
\* polygon-mode call is issued exactly when the batch's field differs from
\* the previous batch's, the first batch being compared with the default
\* state (no blending, no scissor, wireframe off) in every submission.
C15_StateCallsExactlyOnChange ==
    last.op = "draw" =>
        \A k \in 1..Len(DrawAt) :
            LET self == Submitted[k].data
                prev == Previous(k)
                issued == IssuedFor(k)
            IN  /\ (Named(issued, {"blend_func"}) \o Toggles(issued, "BLEND") # <<>>)
                      <=> self.blending # prev.blending
                /\ (Named(issued, {"scissor"}) \o Toggles(issued, "SCISSOR_TEST") # <<>>)
                      <=> self.scissor # prev.scissor
                /\ Named(issued, {"polygon_mode"}) # <<>>
                      <=> self.wireframe # prev.wireframe
                /\ Len(Named(issued, {"blend_func", "scissor", "polygon_mode"})) <= 3

C15_Witness ==
    /\ last.op = "draw"
    /\ Len(DrawAt) = 2
    /\ Submitted[1].data.scissor # None
    /\ Submitted[1].data.scissor = Submitted[2].data.scissor
    /\ Submitted[1].data.blending # Submitted[2].data.blending
    /\ Submitted[1].data.wireframe # Submitted[2].data.wireframe
    /\ Len(Named(context, {"scissor"})) = 1
    /\ Len(Named(context, {"polygon_mode"})) = 1

\* the uniforms sent for the k-th batch
Sent(k) ==
    UNION { IssuedFor(k)[i].args[1] :
              i \in { j \in 1..Len(IssuedFor(k)) : IssuedFor(k)[j].call = "uniform" } }

\* C16: for each batch with a program, every uniform (that the program
\* exposes) whose name is absent from the previous batch's uniforms, or
\* whose value differs from the one there, is uploaded before the batch's
\* draw call; one with the same name and value under the same program is
\* not uploaded again.
C16_UniformsUploadedOnChange ==
    last.op = "draw" =>
        \A k \in 1..Len(DrawAt) :
            LET self == Submitted[k].data
                prev == Previous(k)
            IN  self.shader_program # None =>
                    \A u \in self.uniforms :
                        get_uniform_location(self.shader_program[1], u.name) # None =>
                            /\ get(prev.uniforms, u.name) # Some(u.value) => u \in Sent(k)
                            /\ (/\ get(prev.uniforms, u.name) = Some(u.value)
                                /\ prev.shader_program = self.shader_program)
                                   => u \notin Sent(k)

\* C17: every Graphics::draw leaves the stream empty, so that what one frame
\* appended is not left for a later draw.
C17_DrawLeavesStreamEmpty ==
    last.op = "draw" => stream = new

----------------------------------------------------------------------------
(* Properties of the glyph atlas *)

Cached(self, key) == glyph(self, key) # None

RECURSIVE AllRectangles(_, _)
AllRectangles(atlases, page) ==
    IF page > Len(atlases) THEN <<>>
    ELSE atlases[page].rectangles \o AllRectangles(atlases, page + 1)

Occurrences(layout, key) == Len(SelectSeq(layout, LAMBDA g : g.key = key))

\* with its one pixel margin the glyph is larger than a page
Oversized(key) ==
    \/ Metrics[key].width + 1 > PageWidth
    \/ Metrics[key].height + 1 > PageHeight

CacheAppendOnly ==
    last'.op # "clear" => text.used_glyphs \subseteq text'.used_glyphs

\* C18 as stated: between two clears the rasterizer is invoked at most once
\* for any glyph key and at most one page rectangle is allocated for it, and
\* the cache is append-only, so a later request finds the same GlyphRecord.
C18_EveryKeyRasterizedAtMostOnce ==
    [][/\ \A key \in Keys : font'[key] <= 1
       /\ Len(AllRectangles(text'.atlases, 1)) <= Cardinality(text'.used_glyphs)
       /\ CacheAppendOnly]_vars

\* C18 amended: between two clears the rasterizer is invoked exactly once
\* and exactly one page rectangle is allocated for every key that is cached,
\* and the cache is append-only, so a later request finds the same
\* GlyphRecord; a key that is not cached (whitespace, or a glyph too large
\* for a page) is rasterized again each time it is included and keeps no
\* rectangle.
C18_CachedKeyRasterizedOnce ==
    [][/\ \A key \in Keys :
            IF Cached(text', key)
            THEN /\ font'[key] = 1
                 /\ Cardinality({g \in text'.used_glyphs : g.key = key}) = 1
            ELSE last'.op = "include" =>
                    font'[key] = font[key] + Occurrences(last'.arg, key)
       /\ Len(AllRectangles(text'.atlases, 1)) = Cardinality(text'.used_glyphs)
       /\ CacheAppendOnly]_vars

C18_Witness ==
    /\ last.op = "include"
    /\ calls = 3
    /\ Occurrences(last.arg, "a") = 1
    /\ Cached(text, "a") /\ font["a"] = 1
    /\ Cached(text, "b") /\ font["b"] = 1
    /\ font["space"] >= 2

\* C19: in every reachable state of a TextRenderer the pixel buffer holds
\* width * height * pages bytes, and the page count of atlas_size() is the
\* number of pages that have a bin packer.
C19_ImageSizeMatchesPages ==
    /\ Len(text.image) = text.atlas_size[1] * text.atlas_size[2] * text.atlas_size[3]
    /\ text.atlas_size[3] = Len(text.atlases)

C19_Witness ==
    /\ last.op = "include"
    /\ text.atlas_size[3] >= 2
    /\ Len(text.image) >= 2 * PageWidth * PageHeight

\* C20: including a glyph that is too large for a fresh page adds no cache
\* entry for it and leaves the pages and the pixel buffer as the rest of the
\* layout alone makes them (the other glyphs are cached as if it were not
\* there), and the drain step appends a quad for every other queued glyph
\* and none for it.
C20_OversizedGlyphContributesNothing ==
    [][/\ (/\ last'.op = "include"
           /\ \E i \in 1..Len(last'.arg) : Oversized(last'.arg[i].key)) =>
              LET rest == SelectSeq(last'.arg, LAMBDA g : ~Oversized(g.key))
                  alone == TextRenderer_include([text |-> text, font |-> font], rest, 1).text
              IN  /\ \A g \in text'.used_glyphs : ~Oversized(g.key)
                  /\ text'.used_glyphs = alone.used_glyphs
                  /\ text'.atlas_size = alone.atlas_size
                  /\ text'.atlases = alone.atlases
                  /\ text'.image = alone.image
                  /\ \A i \in 1..Len(rest) : Cached(text', rest[i].key) \/ ~rest[i].rasterize
       /\ (/\ last'.op = "render_to_stream"
           /\ \E i \in 1..Len(last'.arg) : Oversized(last'.arg[i].key)) =>
              LET rest == SelectSeq(last'.arg, LAMBDA g : ~Oversized(g.key))
              IN  /\ Len(stream'.vertices) = Len(stream.vertices) + 4 * Len(rest)
                  /\ Len(stream'.triangles) = Len(stream.triangles) + 2 * Len(rest)
                  /\ text'.ready_to_render = <<>>]_vars

C20_Witness ==
    /\ last.op = "render_to_stream"
    /\ Len(last.arg) = 3
    /\ Oversized(last.arg[2].key)
    /\ Cached(text, last.arg[1].key)
    /\ Cached(text, last.arg[3].key)
    /\ ~Cached(text, last.arg[2].key)
    /\ Len(stream.vertices) = 8

\* the pages (counted from 0) whose packer accepts a w x h rectangle
Accepting(self, w, h) ==
    { page \in 0..(Len(self.atlases) - 1) :
        allocate(self.atlases[page + 1], w, h).origin # None }

\* what one turn of include does with the pages, for a glyph that is not
\* cached before it
PlacedFirstFit(before, after, g) ==
    LET w == Metrics[g.key].width + 1
        h == Metrics[g.key].height + 1
        accepting == Accepting(before, w, h)
        fresh == allocate(AtlasAllocator_new(before.atlas_size[1], before.atlas_size[2]), w, h)
    IN  IF Cached(before, g.key) \/ ~g.rasterize
        THEN after.atlases = before.atlases /\ after.used_glyphs = before.used_glyphs
        ELSE IF accepting # {}
        THEN /\ Len(after.atlases) = Len(before.atlases)
             /\ Cached(after, g.key)
             /\ \A page \in accepting : glyph(after, g.key)[1].page <= page
             /\ glyph(after, g.key)[1].page \in accepting
        ELSE IF fresh.origin # None
        THEN /\ Len(after.atlases) = Len(before.atlases) + 1
             /\ Cached(after, g.key)
             /\ glyph(after, g.key)[1].page = Len(before.atlases)
        ELSE /\ after.atlases = before.atlases
             /\ ~Cached(after, g.key)

\* the turns of one include, glyph by glyph
RECURSIVE EachPlacedFirstFit(_, _, _)
EachPlacedFirstFit(st, layout, index) ==
    IF index > Len(layout) THEN st.text
    ELSE LET next == IncludeGlyph(st, layout[index])
         IN  IF PlacedFirstFit(st.text, next.text, layout[index])
             THEN EachPlacedFirstFit(next, layout, index + 1)
             ELSE TextRenderer_new(0, 0)

C22_DrainAppendsOneQuadPerCachedGlyph ==
    [][last'.op = "render_to_stream" =>
        LET n == Len(stream.vertices)
            resolved == SelectSeq(last'.arg, LAMBDA g : Cached(text, g.key))
        IN  /\ last'.arg = text.ready_to_render
            /\ stream'.vertices =
                  stream.vertices \o
                  [i \in 1..(4 * Len(resolved)) |->
                      LET k == ((i - 1) \div 4) + 1
                      IN  GlyphQuad(text, resolved[k],
                                    glyph(text, resolved[k].key)[1])[((i - 1) % 4) + 1]]
            /\ stream'.triangles =
                  stream.triangles \o
                  [i \in 1..(2 * Len(resolved)) |->
                      LET off == n + 4 * ((i - 1) \div 2)
                      IN  IF i % 2 = 1
                          THEN [a |-> off, b |-> off + 1, c |-> off + 2]
                          ELSE [a |-> off + 2, b |-> off + 3, c |-> off]]
            /\ stream'.batches = stream.batches
            /\ text'.ready_to_render = <<>>
            /\ text' = [text EXCEPT !.ready_to_render = <<>>]]_vars

C22_Witness ==
    /\ last.op = "render_to_stream"
    /\ Len(last.arg) >= 2
    /\ \E i \in 1..Len(last.arg) : ~Cached(text, last.arg[i].key)
    /\ \E i \in 1..Len(last.arg) : Cached(text, last.arg[i].key)
    /\ Len(stream.vertices) = 8
    /\ stream.triangles[3].a = 4

----------------------------------------------------------------------------
(* The render state across frames *)

\* the render states in effect at the draw_elements calls of log[index..],
\* in order, when the calls are issued on a GL in state self
RECURSIVE GpuAtDraws(_, _, _)
GpuAtDraws(self, log, index) ==
    IF index > Len(log) THEN <<>>
    ELSE LET next == GpuCall(self, log[index])
         IN  (IF log[index].call = "draw_elements" THEN <<next>> ELSE <<>>) \o
             GpuAtDraws(next, log, index + 1)

\* the render state a batch asks for
Asked(data) ==
    [blend |-> data.blending,
     scissor |-> data.scissor,
     polygon_mode |-> IF data.wireframe THEN "LINE" ELSE "FILL"]

\* C29: in every frame (prepare_frame, the emitters, one draw), at every
\* draw_elements call the blend mode, the scissor rectangle and the polygon
\* mode in effect on the GL are those of the batch being drawn.
C29_EffectiveStateIsTheBatchs ==
    [][last'.op = "draw" =>
        LET at == GpuAtDraws(gpu, context', 1)
        IN  \A k \in 1..Len(at) : at[k] = Asked(last'.arg.batches[k].data)]_vars

----------------------------------------------------------------------------
(* The drawing context *)

\* the keys of a set of cached glyphs
KeysOf(glyphs) == {g.key : g \in glyphs}

\* the keys a text asks to include
KeysIn(self) ==
    IF self.layout = None THEN {}
    ELSE {self.layout[1][i].key : i \in 1..Len(self.layout[1])}

\* C23 as stated: the glyph atlas of a DrawContext persists across frames,
\* neither begin_frame nor end_frame changes the set of cached glyphs.
C23_AtlasPersistsAcrossFrames ==
    [][last'.op \in {"begin_frame", "end_frame"} =>
        text'.used_glyphs = text.used_glyphs]_vars

\* C23: the glyph atlas of a DrawContext lives for one frame.  begin_frame
\* leaves the text renderer without cached glyphs, pages, image and queue;
\* drawing a text and end_frame keep every cached glyph; and a text drawn
\* in a frame has each of its glyphs that were cached in the frame before
\* rasterized again in this frame.
C23_AtlasLivesOneFrame ==
    [][/\ last'.op = "begin_frame" =>
            /\ text'.used_glyphs = {}
            /\ text'.atlases = <<>>
            /\ text'.image = <<>>
            /\ text'.ready_to_render = <<>>
            /\ text'.atlas_size = <<PageWidth, PageHeight, 0>>
       /\ last'.op \in {"text", "end_frame"} =>
            text.used_glyphs \subseteq text'.used_glyphs
       /\ last'.op = "text" =>
            \A key \in KeysIn(last'.arg) \cap KeysOf(result) : font'[key] >= 1]_vars

\* a text was drawn in a frame and one of its glyphs, cached in the frame
\* before, has been rasterized and cached again
C23_Witness ==
    /\ last.op = "text"
    /\ \E key \in KeysIn(last.arg) \cap KeysOf(result) :
          /\ font[key] = 1
          /\ key \in KeysOf(text.used_glyphs)

\* C30: with_shader, with_transform and with_blending leave the three
\* stacks exactly as they were before the call, whatever their argument.
C30_WithLeavesTheStacks ==
    [][last'.op \in {"with_shader", "with_transform", "with_blending"} =>
        /\ draw'.shaders_stack = draw.shaders_stack
        /\ draw'.transform_stack = draw.transform_stack
        /\ draw'.blending_stack = draw.blending_stack]_vars

----------------------------------------------------------------------------
(* The tile map *)

InBounds(location) == location[1] < MapWidth /\ location[2] < MapHeight

\* the cell of a location in a row-major buffer
RowMajor(location) == location[2] * MapWidth + location[1]

\* C24: index(location) is y * width + x, so set at an in-bounds location
\* writes the cell of that location and no other, and get reads it.
C24_IndexIsRowMajor ==
    [][/\ last'.op = "set" /\ InBounds(last'.arg.location) =>
            /\ TileMap_index(tiles, last'.arg.location) = RowMajor(last'.arg.location)
            /\ tiles'.buffer = [tiles.buffer EXCEPT
                                  ![RowMajor(last'.arg.location) + 1] = last'.arg.id]
       /\ last'.op = "get" /\ InBounds(last'.arg.location) =>
            last'.arg.id = Some(tiles.buffer[RowMajor(last'.arg.location) + 1])]_vars

----------------------------------------------------------------------------
(* The input mappings *)

\* the entries of the stack, bottom first; stack() lists their mappings
Entries == input_context.mappings_stack

\* layers do not decrease from the bottom to the top, and of two mappings
\* of one layer the one pushed first is below
Ordered(s) ==
    \A i, j \in 1..Len(s) :
        i < j => /\ s[i].mapping.layer <= s[j].mapping.layer
                 /\ s[i].mapping.layer = s[j].mapping.layer => s[i].id < s[j].id

Without(s, id) == SelectSeq(s, LAMBDA e : e.id # id)

OnStack(s, id) == \E i \in 1..Len(s) : s[i].id = id

\* C25: push_mapping adds one mapping and leaves the stack in
\* non-decreasing layer order with equal layers in push order;
\* pop_mapping and remove_mapping take one mapping away and keep the
\* others in their order.
C25_StackOrderedByLayerThenPush ==
    [][/\ last'.op = "push_mapping" =>
            /\ Ordered(Entries')
            /\ Len(Entries') = Len(Entries) + 1
            /\ Without(Entries', last'.arg) = Entries
            /\ stack(input_context') = [i \in 1..Len(Entries') |-> Entries'[i].mapping]
       /\ last'.op = "pop_mapping" /\ Entries # <<>> =>
            Entries' = SubSeq(Entries, 1, Len(Entries) - 1)
       /\ last'.op = "remove_mapping" /\ OnStack(Entries, last'.arg) =>
            /\ Len(Entries') = Len(Entries) - 1
            /\ Entries' = Without(Entries, last'.arg)]_vars

\* the mapping pushed last went between two others, right above one of
\* its own layer that was pushed before it
C25_Witness ==
    /\ last.op = "push_mapping"
    /\ \E i \in 2..(Len(Entries) - 1) :
          /\ Entries[i].id = last.arg
          /\ Entries[i - 1].mapping.layer = Entries[i].mapping.layer
          /\ Entries[i + 1].id < last.arg

Bound(mapping, key) == key \in DOMAIN mapping.actions \/ key \in DOMAIN mapping.axes

\* a mapping that consumes the events of a key
Consumes(mapping, key) ==
    \/ mapping.consume = "All"
    \/ mapping.consume = "Hit" /\ Bound(mapping, key)

\* the topmost entry that consumes the key, 1 if none does
Stop(s, key) ==
    LET consumers == {i \in 1..Len(s) : Consumes(s[i].mapping, key)}
    IN  IF consumers = {} THEN 1
        ELSE CHOOSE i \in consumers : \A j \in consumers : j <= i

\* after is before with the key event written to what it binds to the key
Received(before, after, key, pressed) ==
    /\ after.layer = before.layer
    /\ after.consume = before.consume
    /\ DOMAIN after.actions = DOMAIN before.actions
    /\ DOMAIN after.axes = DOMAIN before.axes
    /\ \A k \in DOMAIN before.actions :
          after.actions[k] = IF k = key THEN change(before.actions[k], pressed)
                             ELSE before.actions[k]
    /\ \A k \in DOMAIN before.axes :
          after.axes[k] = IF k # key THEN before.axes[k]
                          ELSE IF pressed THEN 1 ELSE 0

\* C26: a key event goes to the mappings from the top of the stack down to
\* the first one that consumes it (consume All, or Hit with an action or
\* axis bound to the key); every mapping down to that one receives it, no
\* mapping below it is changed, and when none consumes every mapping
\* receives it.
C26_EventStopsAtFirstConsumer ==
    [][last'.op = "on_event" /\ last'.arg.virtual_keycode # None =>
        LET key == last'.arg.virtual_keycode[1]
            stop == Stop(Entries, key)
        IN  /\ Len(Entries') = Len(Entries)
            /\ \A i \in 1..Len(Entries) :
                  /\ Entries'[i].id = Entries[i].id
                  /\ i < stop => Entries'[i] = Entries[i]
                  /\ i >= stop => Received(Entries[i].mapping, Entries'[i].mapping,
                                           key, last'.arg.pressed)]_vars

\* a key was pressed, a Hit mapping that binds it took it, and a mapping
\* below that binds the same key to an action still has it Idle
C26_Witness ==
    /\ last.op = "on_event"
    /\ last.arg.virtual_keycode # None
    /\ last.arg.pressed
    /\ \E i, j \in 1..Len(Entries) :
          LET key == last.arg.virtual_keycode[1]
          IN  /\ j < i
              /\ Entries[i].mapping.consume = "Hit"
              /\ key \in DOMAIN Entries[i].mapping.actions
              /\ Entries[i].mapping.actions[key] = "Pressed"
              /\ key \in DOMAIN Entries[j].mapping.actions
              /\ Entries[j].mapping.actions[key] = "Idle"

----------------------------------------------------------------------------
(* Extracting a suffix and putting it back *)

\* C27: extract(token) followed by append of the stream it handed back
\* restores the source to the vertices, triangles and batches it held
\* right before the extract, and leaves the handed back stream empty.
C27_ExtractThenAppendRestores ==
    [][last'.op = "extract" =>
        /\ append(stream', result').self = stream
        /\ append(stream', result').other = new]_vars

\* an extract took vertices, triangles and batches off a stream and left
\* some of each behind
C27_Witness ==
    /\ last.op = "extract"
    /\ result.vertices # <<>> /\ result.triangles # <<>> /\ result.batches # <<>>
    /\ stream.vertices # <<>> /\ stream.triangles # <<>> /\ stream.batches # <<>>

\* every batch range lies inside the triangles
RangesInside(self) ==
    \A i \in 1..Len(self.batches) :
        /\ self.batches[i].start <= self.batches[i].end
        /\ self.batches[i].end <= Len(self.triangles)

\* C28: in every reachable state every batch range of the stream and of
\* the stream the last extract handed back satisfies
\* start <= end <= triangles().len().
C28_RangesInsideTriangles == RangesInside(stream) /\ RangesInside(result)

====
